---------------------------- MODULE Spec2Model ----------------------------
(***************************************************************************)
(* Model of the analytics core of zentra_backend                           *)
(* (src/src/services/analysis.service.js), of the service wrappers that    *)
(* fetch trades from the Trade collection and hand them to the core, of    *)
(* the dashboard service and of the trading-plan service.                  *)
(*                                                                         *)
(* Numbers.  JavaScript numbers are modelled as exact rationals            *)
(* [num, den] with den > 0.  riskPercentUsed and riskRewardAchieved are    *)
(* held in a trade record as an integer number of tenths (5 is 0.5), and   *)
(* are converted to a rational where the code reads them.  For the trade   *)
(* counts used here (at most 20 trades) the IEEE-754 double results of the *)
(* code's expressions compare and round exactly as the rationals do.       *)
(*                                                                         *)
(* Wall-clock fields (lastUpdated) are left out of the results.            *)
(***************************************************************************)
EXTENDS Integers, Sequences, FiniteSets, TLC

VARIABLES
    db,        \* the Trade collection: a sequence of trade documents
    trades,    \* the array handed to the core (the caller keeps a reference to it)
    arg,       \* the other arguments of the last call
    op,        \* the name of the last operation called, "init" before any call
    result,    \* what the last operation returned (or the error it threw)
    analyses,  \* the StateAnalysis collection
    plans,     \* the TradingPlan collection
    calls      \* the trading-plan calls in progress, each between two awaits

vars == <<db, trades, arg, op, result, analyses, plans, calls>>

-----------------------------------------------------------------------------
(* Rational arithmetic *)

Rat(n, d) == [num |-> n, den |-> d]
RInt(i) == Rat(i, 1)
RAdd(a, b) == Rat(a.num * b.den + b.num * a.den, a.den * b.den)
RSub(a, b) == Rat(a.num * b.den - b.num * a.den, a.den * b.den)
RMul(a, b) == Rat(a.num * b.num, a.den * b.den)
RLt(a, b) == a.num * b.den < b.num * a.den
RLe(a, b) == a.num * b.den <= b.num * a.den
RGt(a, b) == RLt(b, a)
RGe(a, b) == RLe(b, a)
RMin(a, b) == IF RLt(b, a) THEN b ELSE a
RMax(a, b) == IF RGt(b, a) THEN b ELSE a

\* Math.round(x * 100), the numerator of the `Math.round(x * 100) / 100`
\* idiom: the figure rounded to two decimals, held in hundredths.
MathRoundTimes100(a) == (200 * a.num + a.den) \div (2 * a.den)

\* Math.round: the nearest integer, halves rounded up.
MathRound(a) == (2 * a.num + a.den) \div (2 * a.den)

RECURSIVE SumInts(_)
SumInts(s) == IF s = <<>> THEN 0 ELSE Head(s) + SumInts(Tail(s))

\* trades.filter(p).length for the predicates the code uses
CountWinning(ts) == Cardinality({i \in 1..Len(ts) : ts[i].profitLoss > 0})
CountExitedEarly(ts) == Cardinality({i \in 1..Len(ts) : ts[i].exitedEarly})
CountStopLossHit(ts) == Cardinality({i \in 1..Len(ts) : ts[i].stopLossHit})

\* trades.reduce((sum, t) => sum + t.field, 0)
SumProfitLoss(ts) == SumInts([i \in 1..Len(ts) |-> ts[i].profitLoss])
SumRiskTenths(ts) == SumInts([i \in 1..Len(ts) |-> ts[i].riskPercentUsed])
SumTarget(ts) == SumInts([i \in 1..Len(ts) |-> ts[i].targetPercentAchieved])
SumRiskRewardTenths(ts) == SumInts([i \in 1..Len(ts) |-> ts[i].riskRewardAchieved])

\* (winningTrades / totalTrades) * 100
WinRate(ts) == RMul(Rat(CountWinning(ts), Len(ts)), RInt(100))
\* sum of riskPercentUsed / totalTrades
AvgRisk(ts) == Rat(SumRiskTenths(ts), 10 * Len(ts))

-----------------------------------------------------------------------------
(* analyzePsychologicalState *)

\* the accumulator of lines 31-35
Baseline ==
    [state |-> "NEUTRAL", confidence |-> RInt(50), riskTolerance |-> RInt(50),
     emotionalBalance |-> RInt(50), recommendations |-> <<>>]

\* the win-rate rule with the 0.9 and 0.6 weights of the CONFIDENT branch
\* exchanged (mutant of WinRateRule)
WinRateRuleSwappedWeights(acc, winRate) ==
    IF RGe(winRate, RInt(70)) THEN
        [acc EXCEPT
           !.state = "CONFIDENT",
           !.confidence = RMin(RInt(95), RAdd(RInt(50), RMul(RSub(winRate, RInt(50)), Rat(6, 10)))),
           !.riskTolerance = RMin(RInt(80), RAdd(RInt(50), RMul(RSub(winRate, RInt(50)), Rat(9, 10))))]
    ELSE IF RLe(winRate, RInt(30)) THEN
        [acc EXCEPT
           !.state = "FRUSTRATED",
           !.confidence = RMax(RInt(20), RSub(RInt(50), RMul(RSub(RInt(50), winRate), Rat(6, 10)))),
           !.riskTolerance = RMax(RInt(20), RSub(RInt(50), RMul(RSub(RInt(50), winRate), Rat(6, 10))))]
    ELSE acc

\* lines 38-46: the win-rate rule
WinRateRule(acc, winRate) ==
    IF RGe(winRate, RInt(70)) THEN
        [acc EXCEPT
           !.state = "CONFIDENT",
           !.confidence = RMin(RInt(95), RAdd(RInt(50), RMul(RSub(winRate, RInt(50)), Rat(9, 10)))),
           !.riskTolerance = RMin(RInt(80), RAdd(RInt(50), RMul(RSub(winRate, RInt(50)), Rat(6, 10))))]
    ELSE IF RLe(winRate, RInt(30)) THEN
        [acc EXCEPT
           !.state = "FRUSTRATED",
           !.confidence = RMax(RInt(20), RSub(RInt(50), RMul(RSub(RInt(50), winRate), Rat(6, 10)))),
           !.riskTolerance = RMax(RInt(20), RSub(RInt(50), RMul(RSub(RInt(50), winRate), Rat(6, 10))))]
    ELSE acc

\* the risk-usage rule with both comparisons made inclusive (mutant of RiskRule)
RiskRuleInclusive(acc, avgRiskUsed) ==
    IF RGe(avgRiskUsed, RInt(3)) THEN
        [acc EXCEPT
           !.state = "GREEDY",
           !.riskTolerance = RMin(RInt(90), RAdd(acc.riskTolerance, RInt(20))),
           !.recommendations = Append(@, "Reduce risk per trade")]
    ELSE IF RLe(avgRiskUsed, RInt(1)) THEN
        [acc EXCEPT
           !.state = "FEARFUL",
           !.riskTolerance = RMax(RInt(10), RSub(acc.riskTolerance, RInt(20))),
           !.recommendations = Append(@, "Consider increasing position size gradually")]
    ELSE acc

\* lines 49-57: the risk-usage rule
RiskRule(acc, avgRiskUsed) ==
    IF RGt(avgRiskUsed, RInt(3)) THEN
        [acc EXCEPT
           !.state = "GREEDY",
           !.riskTolerance = RMin(RInt(90), RAdd(acc.riskTolerance, RInt(20))),
           !.recommendations = Append(@, "Reduce risk per trade")]
    ELSE IF RLt(avgRiskUsed, RInt(1)) THEN
        [acc EXCEPT
           !.state = "FEARFUL",
           !.riskTolerance = RMax(RInt(10), RSub(acc.riskTolerance, RInt(20))),
           !.recommendations = Append(@, "Consider increasing position size gradually")]
    ELSE acc

\* lines 63-66: early exits
EarlyExitRule(acc, ts) ==
    IF RGt(Rat(CountExitedEarly(ts), Len(ts)), Rat(3, 10)) THEN
        [acc EXCEPT
           !.emotionalBalance = RMax(RInt(30), RSub(acc.emotionalBalance, RInt(20))),
           !.recommendations = Append(@, "Work on holding profitable trades longer")]
    ELSE acc

\* the stop-loss rule without its floor of 30 (mutant of StopLossRule)
StopLossRuleWithoutFloor(acc, ts) ==
    IF RGt(Rat(CountStopLossHit(ts), Len(ts)), Rat(4, 10)) THEN
        [acc EXCEPT
           !.emotionalBalance = RSub(acc.emotionalBalance, RInt(15)),
           !.recommendations = Append(@, "Review entry strategies and market analysis")]
    ELSE acc

\* lines 68-71: stop-loss hits
StopLossRule(acc, ts) ==
    IF RGt(Rat(CountStopLossHit(ts), Len(ts)), Rat(4, 10)) THEN
        [acc EXCEPT
           !.emotionalBalance = RMax(RInt(30), RSub(acc.emotionalBalance, RInt(15))),
           !.recommendations = Append(@, "Review entry strategies and market analysis")]
    ELSE acc

\* lines 74-76: target achievement
TargetRule(acc, ts) ==
    IF RLt(Rat(SumTarget(ts), Len(ts)), RInt(50)) THEN
        [acc EXCEPT !.recommendations = Append(@, "Improve trade management and target setting")]
    ELSE acc

\* lines 79-81: the default recommendation
DefaultRecommendation(acc) ==
    IF Len(acc.recommendations) = 0 THEN
        [acc EXCEPT !.recommendations = Append(@, "Continue current trading approach")]
    ELSE acc

\* the returned object with the scores scaled by 100 (mutant of StateResult)
StateResultTimes100(acc) ==
    [state |-> acc.state,
     confidence |-> MathRoundTimes100(acc.confidence),
     riskTolerance |-> MathRoundTimes100(acc.riskTolerance),
     emotionalBalance |-> MathRoundTimes100(acc.emotionalBalance),
     recommendations |-> acc.recommendations]

\* lines 83-90: the returned object
StateResult(acc) ==
    [state |-> acc.state,
     confidence |-> MathRound(acc.confidence),
     riskTolerance |-> MathRound(acc.riskTolerance),
     emotionalBalance |-> MathRound(acc.emotionalBalance),
     recommendations |-> acc.recommendations]

\* the cascade with the risk-usage rule applied before the win-rate rule
\* (mutant of RuleCascade)
RuleCascadeRiskFirst(ts) ==
    LET a1 == RiskRule(Baseline, AvgRisk(ts))
        a2 == WinRateRule(a1, WinRate(ts))
        a3 == EarlyExitRule(a2, ts)
        a4 == StopLossRule(a3, ts)
        a5 == TargetRule(a4, ts)
    IN  DefaultRecommendation(a5)

\* the rule cascade of lines 37-81, in the order the code applies it
RuleCascade(ts) ==
    LET a1 == WinRateRule(Baseline, WinRate(ts))
        a2 == RiskRule(a1, AvgRisk(ts))
        a3 == EarlyExitRule(a2, ts)
        a4 == StopLossRule(a3, ts)
        a5 == TargetRule(a4, ts)
    IN  DefaultRecommendation(a5)

analyzePsychologicalState(ts) ==
    IF Len(ts) = 0 THEN
        [state |-> "NEUTRAL", confidence |-> 50, riskTolerance |-> 50,
         emotionalBalance |-> 50,
         recommendations |-> <<"Start trading to build psychological profile">>]
    ELSE StateResult(RuleCascade(ts))


-----------------------------------------------------------------------------
(* analyzeSessionForecast *)

\* the win-rate factor moving the probability by 60 instead of 20 (mutant of
\* WinRateFactor)
WinRateFactorOfSixty(f, winRate) ==
    IF RGe(winRate, RInt(60)) THEN
        [f EXCEPT
           !.factors = Append(@, [factor |-> "Historical win rate", impact |-> "POSITIVE", weight |-> 4]),
           !.probability = @ + 60]
    ELSE IF RLe(winRate, RInt(40)) THEN
        [f EXCEPT
           !.factors = Append(@, [factor |-> "Historical win rate", impact |-> "NEGATIVE", weight |-> 4]),
           !.probability = @ - 60]
    ELSE f

\* lines 129-143: the win-rate factor
WinRateFactor(f, winRate) ==
    IF RGe(winRate, RInt(60)) THEN
        [f EXCEPT
           !.factors = Append(@, [factor |-> "Historical win rate", impact |-> "POSITIVE", weight |-> 4]),
           !.probability = @ + 20]
    ELSE IF RLe(winRate, RInt(40)) THEN
        [f EXCEPT
           !.factors = Append(@, [factor |-> "Historical win rate", impact |-> "NEGATIVE", weight |-> 4]),
           !.probability = @ - 20]
    ELSE f

\* lines 146-160: the profit factor
ProfitFactor(f, avgProfit) ==
    IF RGt(avgProfit, RInt(0)) THEN
        [f EXCEPT
           !.factors = Append(@, [factor |-> "Average profitability", impact |-> "POSITIVE", weight |-> 3]),
           !.probability = @ + 15]
    ELSE
        [f EXCEPT
           !.factors = Append(@, [factor |-> "Average profitability", impact |-> "NEGATIVE", weight |-> 3]),
           !.probability = @ - 15]

\* lines 163-178: the risk-management factor
RiskFactor(f, avgRisk) ==
    IF RLe(avgRisk, RInt(2)) THEN
        [f EXCEPT
           !.factors = Append(@, [factor |-> "Risk management", impact |-> "POSITIVE", weight |-> 3]),
           !.probability = @ + 10]
    ELSE
        [f EXCEPT
           !.factors = Append(@, [factor |-> "Risk management", impact |-> "NEGATIVE", weight |-> 3]),
           !.probability = @ - 10]

\* the forecast thresholds with the comparisons made strict (mutant of ForecastOf)
ForecastOfStrict(probability) ==
    IF probability > 65 THEN "POSITIVE"
    ELSE IF probability < 35 THEN "NEGATIVE"
    ELSE "NEUTRAL"

\* lines 181-185
ForecastOf(probability) ==
    IF probability >= 65 THEN "POSITIVE"
    ELSE IF probability <= 35 THEN "NEGATIVE"
    ELSE "NEUTRAL"

\* lines 188-197
ForecastRecommendations(forecast) ==
    IF forecast = "POSITIVE" THEN
        <<"Consider increasing position size", "Focus on high-probability setups">>
    ELSE IF forecast = "NEGATIVE" THEN
        <<"Reduce position sizes", "Be more selective with entries">>
    ELSE <<"Trade with normal position sizes", "Monitor market conditions closely">>

\* the session label passed through as given (mutant of ToUpperCase)
ToUpperCaseUnchanged(s) == s

\* session.toUpperCase(), on the spellings the model uses
ToUpperCase(s) ==
    CASE s = "london" -> "LONDON"
      [] s = "ny" -> "NY"
      [] s = "asia" -> "ASIA"
      [] OTHER -> s

Max(a, b) == IF a > b THEN a ELSE b
Min(a, b) == IF a < b THEN a ELSE b

\* the pre-clamp probability of lines 124-178
RawProbability(ts) ==
    LET f0 == [factors |-> <<>>, probability |-> 50]
        f1 == WinRateFactor(f0, WinRate(ts))
        f2 == ProfitFactor(f1, Rat(SumProfitLoss(ts), Len(ts)))
    IN  RiskFactor(f2, AvgRisk(ts))

\* factor weights are held in tenths (4 is 0.4, 10 is 1.0)
analyzeSessionForecast(ts, session) ==
    IF Len(ts) = 0 THEN
        [session |-> ToUpperCase(session), forecast |-> "NEUTRAL", probability |-> 50,
         factors |-> <<[factor |-> "No historical data", impact |-> "NEUTRAL", weight |-> 10]>>,
         recommendations |-> <<"Start trading this session to build forecast data">>]
    ELSE
        LET f == RawProbability(ts)
            forecast == ForecastOf(f.probability)
        IN  [session |-> ToUpperCase(session), forecast |-> forecast,
             probability |-> Max(0, Min(100, f.probability)),
             factors |-> f.factors,
             recommendations |-> ForecastRecommendations(forecast)]

-----------------------------------------------------------------------------
(* Object-literal counters keyed by a string *)

\* Object.keys(counts) after `labels.forEach(l => counts[l] = (counts[l] || 0) + 1)`:
\* the distinct labels in the order of their first occurrence
RECURSIVE KeysOf(_)
KeysOf(labels) ==
    IF labels = <<>> THEN <<>>
    ELSE LET front == SubSeq(labels, 1, Len(labels) - 1)
             last == labels[Len(labels)]
             keys == KeysOf(front)
         IN  IF \E i \in 1..Len(keys) : keys[i] = last THEN keys ELSE Append(keys, last)

CountOf(labels, key) == Cardinality({i \in 1..Len(labels) : labels[i] = key})

TypeError == [error |-> "TypeError: Reduce of empty array with no initial value"]
Threw(r) == "error" \in DOMAIN r

\* the reduce callback with the comparison turned round, so that the
\* accumulator survives a tie (mutant of ReduceStep)
ReduceStepKeepFirst(labels, a, b) == IF CountOf(labels, a) >= CountOf(labels, b) THEN a ELSE b

\* the callback (a, b) => (counts[a] > counts[b] ? a : b)
ReduceStep(labels, a, b) == IF CountOf(labels, a) > CountOf(labels, b) THEN a ELSE b

RECURSIVE ReduceFrom(_, _, _)
ReduceFrom(labels, a, rest) ==
    IF rest = <<>> THEN a
    ELSE ReduceFrom(labels, ReduceStep(labels, a, Head(rest)), Tail(rest))

\* Object.keys(counts).reduce(callback) with no initial value: the first key
\* starts as the accumulator, and an empty array throws a TypeError
ReduceKeys(labels) ==
    LET keys == KeysOf(labels)
    IN  IF keys = <<>> THEN TypeError
        ELSE [value |-> ReduceFrom(labels, Head(keys), Tail(keys))]

-----------------------------------------------------------------------------
(* analyzePerformanceInsights *)

\* lines 272-287
WinRateInsight(r, winRate) ==
    IF RGe(winRate, RInt(70)) THEN
        [r EXCEPT !.insights = Append(@,
            [type |-> "STRENGTH",
             description |-> "Excellent win rate indicates strong market analysis skills",
             confidence |-> MathRound(winRate), impact |-> "HIGH"])]
    ELSE IF RLe(winRate, RInt(30)) THEN
        [r EXCEPT
           !.insights = Append(@,
            [type |-> "WEAKNESS",
             description |-> "Low win rate suggests need for better entry strategies",
             confidence |-> MathRound(RSub(RInt(100), winRate)), impact |-> "HIGH"]),
           !.recommendations = Append(@, "Review entry criteria and market analysis")]
    ELSE r

\* lines 290-305
RiskInsight(r, avgRisk) ==
    IF RLe(avgRisk, RInt(2)) THEN
        [r EXCEPT !.insights = Append(@,
            [type |-> "STRENGTH",
             description |-> "Consistent risk management shows good discipline",
             confidence |-> 85, impact |-> "HIGH"])]
    ELSE IF RGt(avgRisk, RInt(3)) THEN
        [r EXCEPT
           !.insights = Append(@,
            [type |-> "WEAKNESS",
             description |-> "High risk per trade may lead to account blowouts",
             confidence |-> 80, impact |-> "HIGH"]),
           !.recommendations = Append(@, "Reduce risk per trade to protect capital")]
    ELSE r

\* lines 308-323
RiskRewardInsight(r, avgRiskReward) ==
    IF RGe(avgRiskReward, Rat(15, 10)) THEN
        [r EXCEPT !.insights = Append(@,
            [type |-> "STRENGTH",
             description |-> "Good risk-reward ratios maximize profit potential",
             confidence |-> 75, impact |-> "MEDIUM"])]
    ELSE IF RLt(avgRiskReward, RInt(1)) THEN
        [r EXCEPT
           !.insights = Append(@,
            [type |-> "WEAKNESS",
             description |-> "Poor risk-reward ratios limit profit potential",
             confidence |-> 70, impact |-> "MEDIUM"]),
           !.recommendations = Append(@, "Focus on trades with better risk-reward ratios")]
    ELSE r

\* lines 329-336; correlation is held in tenths (-3 is -0.3)
EarlyExitPattern(r, ts) ==
    IF RGt(Rat(CountExitedEarly(ts), Len(ts)), Rat(3, 10)) THEN
        [r EXCEPT
           !.patterns = Append(@,
            [pattern |-> "Early exit on profitable trades",
             frequency |-> MathRound(RMul(Rat(CountExitedEarly(ts), Len(ts)), RInt(100))),
             correlation |-> -3]),
           !.recommendations = Append(@, "Practice holding winners longer")]
    ELSE r

\* lines 338-345
StopLossPattern(r, ts) ==
    IF RGt(Rat(CountStopLossHit(ts), Len(ts)), Rat(4, 10)) THEN
        [r EXCEPT
           !.patterns = Append(@,
            [pattern |-> "Frequent stop loss hits",
             frequency |-> MathRound(RMul(Rat(CountStopLossHit(ts), Len(ts)), RInt(100))),
             correlation |-> -5]),
           !.recommendations = Append(@, "Improve entry timing and market analysis")]
    ELSE r

Sessions(ts) == [i \in 1..Len(ts) |-> ts[i].session]

\* the insight from half of the trades on (mutant of SessionInsight)
SessionInsightFromHalf(r, ts) ==
    LET bestSession == ReduceKeys(Sessions(ts)).value
    IN  IF RGe(Rat(CountOf(Sessions(ts), bestSession), Len(ts)), Rat(5, 10)) THEN
            [r EXCEPT !.insights = Append(@,
                [type |-> "OPPORTUNITY",
                 description |-> <<"Strong performance in ", bestSession, " session">>,
                 confidence |-> 70, impact |-> "MEDIUM"])]
        ELSE r

\* lines 348-362: ts is not empty here, so the reduce has a key to start from
SessionInsight(r, ts) ==
    LET bestSession == ReduceKeys(Sessions(ts)).value
    IN  IF RGt(Rat(CountOf(Sessions(ts), bestSession), Len(ts)), Rat(5, 10)) THEN
            [r EXCEPT !.insights = Append(@,
                [type |-> "OPPORTUNITY",
                 description |-> <<"Strong performance in ", bestSession, " session">>,
                 confidence |-> 70, impact |-> "MEDIUM"])]
        ELSE r

\* the two defaults appended whatever the list holds (mutant of
\* DefaultInsightRecommendations)
DefaultInsightRecommendationsAlways(r) ==
    [r EXCEPT !.recommendations =
        @ \o <<"Continue current trading approach", "Monitor performance metrics regularly">>]

\* lines 365-368
DefaultInsightRecommendations(r) ==
    IF Len(r.recommendations) = 0 THEN
        [r EXCEPT !.recommendations =
            <<"Continue current trading approach", "Monitor performance metrics regularly">>]
    ELSE r

\* the empty result the service tests expect of the wrapper: no insight and a
\* summary line (mutant of NoDataInsights)
NoDataSummary(period) ==
    [period |-> period, insights |-> <<>>,
     summary |-> "No trading data available for analysis"]

\* lines 244-257: the result for an empty trade array
NoDataInsights(period) ==
    [period |-> period,
     insights |-> <<[type |-> "OPPORTUNITY",
                     description |-> "No trading data available for analysis",
                     confidence |-> 100, impact |-> "LOW"]>>,
     patterns |-> <<>>,
     recommendations |-> <<"Start trading to generate performance insights">>]

analyzePerformanceInsights(ts, period) ==
    IF Len(ts) = 0 THEN NoDataInsights(period)
    ELSE
        LET r0 == [period |-> period, insights |-> <<>>, patterns |-> <<>>, recommendations |-> <<>>]
            r1 == WinRateInsight(r0, WinRate(ts))
            r2 == RiskInsight(r1, AvgRisk(ts))
            r3 == RiskRewardInsight(r2, Rat(SumRiskRewardTenths(ts), 10 * Len(ts)))
            r4 == EarlyExitPattern(r3, ts)
            r5 == StopLossPattern(r4, ts)
            r6 == SessionInsight(r5, ts)
        IN  DefaultInsightRecommendations(r6)

-----------------------------------------------------------------------------
(* analyzeStateHistory *)

getStateTrigger(trade) ==
    IF trade.profitLoss > 0 THEN "Profitable trade"
    ELSE IF trade.profitLoss < 0 THEN "Losing trade"
    ELSE IF trade.exitedEarly THEN "Early exit"
    ELSE IF trade.stopLossHit THEN "Stop loss hit"
    ELSE "Trade execution"

\* one step of a stable insertion sort: t goes after every element that does
\* not compare greater than it
RECURSIVE InsertByEntryTime(_, _)
InsertByEntryTime(sorted, t) ==
    IF sorted = <<>> THEN <<t>>
    ELSE IF sorted[Len(sorted)].entryTime <= t.entryTime THEN Append(sorted, t)
    ELSE Append(InsertByEntryTime(SubSeq(sorted, 1, Len(sorted) - 1), t), sorted[Len(sorted)])

RECURSIVE SortFrom(_, _)
SortFrom(sorted, rest) ==
    IF rest = <<>> THEN sorted
    ELSE SortFrom(InsertByEntryTime(sorted, Head(rest)), Tail(rest))

\* the array read in the order it was supplied in (mutant of SortInPlace)
SortInPlaceSkipped(ts) == [array |-> ts, returned |-> ts]

\* trades.sort((a, b) => new Date(a.entryTime) - new Date(b.entryTime)):
\* Array.prototype.sort sorts the array it is called on (stably) and returns
\* that same array
SortInPlace(ts) == [array |-> SortFrom(<<>>, ts), returned |-> SortFrom(<<>>, ts)]

Abs(x) == IF x < 0 THEN -x ELSE x

\* `let lastState = null` and the test `!lastState`
Null == [null |-> TRUE]
IsNull(x) == "null" \in DOMAIN x

\* the test of line 436 without its comparison of the confidences (mutant of
\* Significant)
SignificantByStateOnly(lastState, state) ==
    \/ IsNull(lastState)
    \/ lastState.state # state.state

\* line 436
Significant(lastState, state) ==
    \/ IsNull(lastState)
    \/ lastState.state # state.state
    \/ Abs(lastState.confidence - state.confidence) > 15

\* line 432: sortedTrades.slice(Math.max(0, i - 4), i + 1), i counted from 0
RecentWindow(sortedTrades, i) == SubSeq(sortedTrades, Max(0, i - 4) + 1, i + 1)

\* lines 430-454: the loop, i counted from 0
RECURSIVE HistoryLoop(_, _, _, _)
HistoryLoop(sortedTrades, limit, i, acc) ==
    IF ~(i < Len(sortedTrades) /\ Len(acc.history) < limit) THEN acc
    ELSE
        LET trade == sortedTrades[i + 1]
            state == analyzePsychologicalState(RecentWindow(sortedTrades, i))
        IN  IF Significant(acc.lastState, state) THEN
                HistoryLoop(sortedTrades, limit, i + 1,
                    [history |-> Append(acc.history,
                        [timestamp |-> trade.entryTime,
                         state |-> state.state,
                         confidence |-> state.confidence,
                         trigger |-> getStateTrigger(trade),
                         context |-> [tradeId |-> trade._id,
                                      profitLoss |-> trade.profitLoss,
                                      riskPercentUsed |-> trade.riskPercentUsed]]),
                     states |-> Append(acc.states, state.state),
                     confidences |-> Append(acc.confidences, state.confidence),
                     stateChangeCount |-> acc.stateChangeCount + 1,
                     lastState |-> state])
            ELSE HistoryLoop(sortedTrades, limit, i + 1, acc)

\* lines 464-465
AverageConfidence(confidences) ==
    IF Len(confidences) > 0 THEN MathRound(Rat(SumInts(confidences), Len(confidences))) ELSE 50

\* lines 468-472, in hundredths: Math.round((Math.sqrt(variance) / 100) * 100) is
\* the integer nearest to the square root of the variance
Volatility(confidences) ==
    IF Len(confidences) = 0 THEN 0
    ELSE
        LET avg == AverageConfidence(confidences)
            sq == SumInts([i \in 1..Len(confidences) |-> (confidences[i] - avg) * (confidences[i] - avg)])
            n == Len(confidences)
        IN  CHOOSE k \in 0..100 :
                /\ (k = 0 \/ (2 * k - 1) * (2 * k - 1) * n <= 4 * sq)
                /\ 4 * sq < (2 * k + 1) * (2 * k + 1) * n

\* history.slice(0, limit), for limit >= 0
SliceTo(s, limit) == SubSeq(s, 1, Min(Len(s), limit))

\* the summary with the initial snapshot not counted as a change (mutant of
\* HistorySummary)
HistorySummaryWithoutSnapshot(acc, limit) ==
    LET mostCommonState == ReduceKeys(acc.states)
    IN  IF Threw(mostCommonState) THEN mostCommonState
        ELSE [history |-> SliceTo(acc.history, limit),
              summary |-> [totalChanges |-> acc.stateChangeCount - 1,
                           mostCommonState |-> mostCommonState.value,
                           averageConfidence |-> AverageConfidence(acc.confidences),
                           volatility |-> Volatility(acc.confidences)]]

\* lines 456-482: the summary and the returned object
HistorySummary(acc, limit) ==
    LET mostCommonState == ReduceKeys(acc.states)
    IN  IF Threw(mostCommonState) THEN mostCommonState
        ELSE [history |-> SliceTo(acc.history, limit),
              summary |-> [totalChanges |-> acc.stateChangeCount,
                           mostCommonState |-> mostCommonState.value,
                           averageConfidence |-> AverageConfidence(acc.confidences),
                           volatility |-> Volatility(acc.confidences)]]

\* the replay run with one event more than the limit allows (mutant of
\* analyzeStateHistory)
analyzeStateHistoryOneMore(ts, limit) ==
    IF Len(ts) = 0 THEN
        [history |-> <<>>,
         summary |-> [totalChanges |-> 0, mostCommonState |-> "NEUTRAL",
                      averageConfidence |-> 50, volatility |-> 0]]
    ELSE
        HistorySummary(
            HistoryLoop(SortInPlace(ts).returned, limit + 1, 0,
                [history |-> <<>>, states |-> <<>>, confidences |-> <<>>,
                 stateChangeCount |-> 0, lastState |-> Null]),
            limit + 1)

\* what the call returns (or throws), given the array as sorted by line 424
analyzeStateHistory(ts, limit) ==
    IF Len(ts) = 0 THEN
        [history |-> <<>>,
         summary |-> [totalChanges |-> 0, mostCommonState |-> "NEUTRAL",
                      averageConfidence |-> 50, volatility |-> 0]]
    ELSE
        HistorySummary(
            HistoryLoop(SortInPlace(ts).returned, limit, 0,
                [history |-> <<>>, states |-> <<>>, confidences |-> <<>>,
                 stateChangeCount |-> 0, lastState |-> Null]),
            limit)

\* the caller's array after the call
ArrayAfterStateHistory(ts) == IF Len(ts) = 0 THEN ts ELSE SortInPlace(ts).array

-----------------------------------------------------------------------------
(* Trade documents and the inputs of the core *)

\* a trade document (src/src/validations/trade.validation.js names the body's
\* fields; exitTime and notes are read by nothing modelled here)
Trade(id, user, time, pl, risk, rr, sess, sl, early, target) ==
    [_id |-> id, userId |-> user, entryTime |-> time, profitLoss |-> pl,
     riskPercentUsed |-> risk, riskRewardAchieved |-> rr, session |-> sess,
     stopLossHit |-> sl, exitedEarly |-> early, targetPercentAchieved |-> target]

SeqsUpTo(S, n) == UNION {[1..k -> S] : k \in 0..n}

\* documents get their _id when they are stored: here, their position
WithIds(s) == [i \in 1..Len(s) |-> [s[i] EXCEPT !._id = i]]

Repeat(t, k) == [i \in 1..k |-> t]

MaxStateTrades == 2
MaxBlock == 10

\* riskPercentUsed 0.5, 1.0, 3.0 and 5.0: below, on and above the two thresholds
\* (as in the fixtures, a winning trade reaches its target and a losing one
\* reaches none of it)
StateTrades ==
    {Trade(0, 1, 1, pl, risk, 10, "LONDON", sl, early, IF pl > 0 THEN 100 ELSE 0) :
        pl \in {-50, 100}, risk \in {5, 10, 30, 50},
        sl \in BOOLEAN, early \in BOOLEAN}

\* the shape of the service tests' fixtures: k winning trades followed by m
\* losing trades (the losing ones hit their stop loss and reach no target)
Blocks ==
    {WithIds(Repeat(Trade(0, 1, 1, 100, rw, 10, "LONDON", FALSE, FALSE, 100), b[1])
             \o Repeat(Trade(0, 1, 2, -50, rl, 10, "LONDON", TRUE, FALSE, 0), b[2])) :
        b \in {c \in (0..MaxBlock) \X (0..MaxBlock) : c[1] + c[2] \in 1..MaxBlock},
        rw \in {5, 20, 50}, rl \in {5, 20, 50}}

StateInputs == {WithIds(s) : s \in SeqsUpTo(StateTrades, MaxStateTrades)} \cup Blocks

NoArg == [none |-> TRUE]
NoResult == [none |-> TRUE]

InitState ==
    /\ db = <<>>
    /\ trades \in StateInputs
    /\ arg = NoArg
    /\ op = "init"
    /\ result = NoResult
    /\ analyses = <<>>
    /\ plans = <<>>
    /\ calls = <<>>

CallAnalyzePsychologicalState ==
    /\ op' = "analyzePsychologicalState"
    /\ arg' = NoArg
    /\ result' = analyzePsychologicalState(trades)
    /\ UNCHANGED <<db, trades, analyses, plans, calls>>

NextState == CallAnalyzePsychologicalState

SpecState == InitState /\ [][NextState]_vars

-----------------------------------------------------------------------------
(* Properties of analyzePsychologicalState, checked under SpecState.  They *)
(* restate the thresholds in integer arithmetic on the trade count n, the  *)
(* number of winning trades w and the sum of riskPercentUsed in tenths.    *)

Contains(s, x) == \E i \in 1..Len(s) : s[i] = x

StateCalled == op = "analyzePsychologicalState" /\ Len(trades) > 0

RiskHigh == SumRiskTenths(trades) > 30 * Len(trades)
RiskLow == SumRiskTenths(trades) < 10 * Len(trades)
WinsHigh == 100 * CountWinning(trades) >= 70 * Len(trades)
WinsLow == 100 * CountWinning(trades) <= 30 * Len(trades)

\* C1: for a non-empty trade sequence the last rule wins: average risk above 3
\* gives GREEDY and below 1 gives FEARFUL whatever the win rate; only with the
\* average risk in [1, 3] is the state CONFIDENT (win rate >= 70), FRUSTRATED
\* (win rate <= 30) or NEUTRAL (otherwise).
C1_LastRuleWins ==
    StateCalled =>
        /\ RiskHigh => result.state = "GREEDY"
        /\ RiskLow => result.state = "FEARFUL"
        /\ (~RiskHigh /\ ~RiskLow) =>
              result.state = (IF WinsHigh THEN "CONFIDENT"
                              ELSE IF WinsLow THEN "FRUSTRATED" ELSE "NEUTRAL")

\* the spec's symmetric case: all losses at an average risk of 0.5 end FEARFUL
C1_Witness ==
    /\ StateCalled
    /\ CountWinning(trades) = 0
    /\ SumRiskTenths(trades) = 5 * Len(trades)
    /\ result.state = "FEARFUL"

\* C2: for a non-empty trade set with an average risk below 1 the result is
\* FEARFUL with riskTolerance strictly below 50 and the recommendation
\* "Consider increasing position size gradually".
C2_FearfulLowTolerance ==
    (StateCalled /\ RiskLow) =>
        /\ result.state = "FEARFUL"
        /\ result.riskTolerance < 50
        /\ Contains(result.recommendations, "Consider increasing position size gradually")

\* C7: every trade profitable and an average risk above 3 give GREEDY,
\* riskTolerance above 50 and the recommendation "Reduce risk per trade".
C7_GreedyOverridesConfident ==
    (StateCalled /\ CountWinning(trades) = Len(trades) /\ RiskHigh) =>
        /\ result.state = "GREEDY"
        /\ result.riskTolerance > 50
        /\ Contains(result.recommendations, "Reduce risk per trade")

\* the service test's fixture: five winning trades at a risk of 5.0
C7_Witness ==
    /\ StateCalled
    /\ Len(trades) = 5
    /\ CountWinning(trades) = 5
    /\ SumRiskTenths(trades) = 250
    /\ result.state = "GREEDY"
    /\ result.riskTolerance = 90

\* round(min(cap, 50 + (winRate - 50) * 0.9)) with winRate = 100 w / n is the
\* floor of (11 n + 180 w) / (2 n), capped; with 0.6 it is the floor of
\* (41 n + 120 w) / (2 n), capped or floored.
ExpectedConfident(n, w) == Min(95, (11 * n + 180 * w) \div (2 * n))
ExpectedTolerant(n, w) == Min(80, (41 * n + 120 * w) \div (2 * n))
ExpectedFrustrated(n, w) == Max(20, (41 * n + 120 * w) \div (2 * n))

\* C8: with the average risk in [1, 3] the win-rate rule alone fixes the
\* scores: CONFIDENT with confidence round(min(95, 50 + (winRate - 50) * 0.9))
\* and riskTolerance round(min(80, 50 + (winRate - 50) * 0.6)), both above 50;
\* FRUSTRATED with both equal to round(max(20, 50 - (50 - winRate) * 0.6)),
\* below 50; NEUTRAL with both 50.
C8_WinRateScores ==
    (StateCalled /\ ~RiskHigh /\ ~RiskLow) =>
        LET n == Len(trades)
            w == CountWinning(trades)
        IN  IF WinsHigh THEN
                /\ result.state = "CONFIDENT"
                /\ result.confidence = ExpectedConfident(n, w)
                /\ result.riskTolerance = ExpectedTolerant(n, w)
                /\ result.confidence > 50
                /\ result.riskTolerance > 50
            ELSE IF WinsLow THEN
                /\ result.state = "FRUSTRATED"
                /\ result.confidence = ExpectedFrustrated(n, w)
                /\ result.riskTolerance = ExpectedFrustrated(n, w)
                /\ result.confidence < 50
                /\ result.riskTolerance < 50
            ELSE
                /\ result.state = "NEUTRAL"
                /\ result.confidence = 50
                /\ result.riskTolerance = 50

\* the service test's fixture: eight winning and two losing trades at a risk of 2.0
C8_Witness ==
    /\ StateCalled
    /\ Len(trades) = 10
    /\ CountWinning(trades) = 8
    /\ SumRiskTenths(trades) = 200
    /\ result.state = "CONFIDENT"
    /\ result.confidence = 77
    /\ result.riskTolerance = 68

\* C9: for every trade sequence, empty or not, confidence, riskTolerance and
\* emotionalBalance are integers in [0, 100].
C9_ScoresInRange ==
    op = "analyzePsychologicalState" =>
        /\ result.confidence \in 0..100
        /\ result.riskTolerance \in 0..100
        /\ result.emotionalBalance \in 0..100

\* the scores at the ends of the ranges the rules can produce
C9_Witness ==
    /\ StateCalled
    /\ result.confidence = 95
    /\ result.riskTolerance = 90
    /\ result.emotionalBalance = 30

-----------------------------------------------------------------------------
(* The session forecaster on its own: SpecForecast *)

MaxForecastTrades == 3

\* losses small and large, so that the sign of the mean profit does not
\* follow from the win rate; risks of 0.5, 2.0 and 5.0
ForecastTrades ==
    {Trade(0, 1, 1, pl, risk, 10, "NY", FALSE, FALSE, 100) :
        pl \in {-250, -50, 100}, risk \in {5, 20, 50}}

ForecastInputs ==
    {WithIds(s) : s \in SeqsUpTo(ForecastTrades, MaxForecastTrades)} \cup Blocks

SessionArgs == {"NY", "london"}

InitForecast ==
    /\ db = <<>>
    /\ trades \in ForecastInputs
    /\ arg = NoArg
    /\ op = "init"
    /\ result = NoResult
    /\ analyses = <<>>
    /\ plans = <<>>
    /\ calls = <<>>

CallAnalyzeSessionForecast ==
    \E session \in SessionArgs :
        /\ op' = "analyzeSessionForecast"
        /\ arg' = [session |-> session]
        /\ result' = analyzeSessionForecast(trades, session)
        /\ UNCHANGED <<db, trades, analyses, plans, calls>>

NextForecast == CallAnalyzeSessionForecast

SpecForecast == InitForecast /\ [][NextForecast]_vars

ForecastCalled == op = "analyzeSessionForecast" /\ Len(trades) > 0

\* C10: for a non-empty session trade set the probability is 50, plus 20 if
\* the win rate is at least 60 and minus 20 if it is at most 40, plus 15 if the
\* mean profitLoss is positive and minus 15 otherwise, plus 10 if the mean
\* riskPercentUsed is at most 2 and minus 10 otherwise; the forecast is
\* POSITIVE iff that is at least 65, NEGATIVE iff it is at most 35, and NEUTRAL
\* otherwise.
C10_ForecastProbability ==
    ForecastCalled =>
        LET n == Len(trades)
            w == CountWinning(trades)
            p == 50
                 + (IF 100 * w >= 60 * n THEN 20 ELSE IF 100 * w <= 40 * n THEN -20 ELSE 0)
                 + (IF SumProfitLoss(trades) > 0 THEN 15 ELSE -15)
                 + (IF SumRiskTenths(trades) <= 20 * n THEN 10 ELSE -10)
        IN  /\ result.probability = p
            /\ result.forecast = "POSITIVE" <=> p >= 65
            /\ result.forecast = "NEGATIVE" <=> p <= 35
            /\ result.forecast = "NEUTRAL" <=> (35 < p /\ p < 65)

\* the spec's example: eight trades of +100 and two of -50, all at a risk of 2.0
C10_Witness ==
    /\ ForecastCalled
    /\ Len(trades) = 10
    /\ CountWinning(trades) = 8
    /\ SumProfitLoss(trades) = 700
    /\ \A i \in 1..10 : trades[i].riskPercentUsed = 20
    /\ result.probability = 95
    /\ result.forecast = "POSITIVE"

\* C20: for every non-empty input the probability before the clamp is one of
\* 5, 25, 35, 45, 55, 65, 75 and 95, so the returned probability is inside
\* [0, 100] and the clamp max(0, min(100, p)) does not change the value.
C20_ClampChangesNothing ==
    ForecastCalled =>
        /\ RawProbability(trades).probability \in {5, 25, 35, 45, 55, 65, 75, 95}
        /\ result.probability \in 0..100
        /\ result.probability = RawProbability(trades).probability

\* a win rate of at least 60 with a mean loss, at a low risk: 50 + 20 - 15 + 10
C20_Witness ==
    /\ ForecastCalled
    /\ 100 * CountWinning(trades) >= 60 * Len(trades)
    /\ SumProfitLoss(trades) < 0
    /\ result.probability = 65

-----------------------------------------------------------------------------
(* The four entry points of the core, called on one array: Spec *)

MaxCoreTrades == 3
MaxLimit == 2

CoreTrades ==
    {Trade(0, 1, time, pl, risk, 10, "LONDON", FALSE, FALSE, 100) :
        time \in {1, 2}, pl \in {-50, 100}, risk \in {5, 50}}

CoreInputs == {WithIds(s) : s \in SeqsUpTo(CoreTrades, MaxCoreTrades)}

PeriodArgs == {"MONTH", "7d"}

Init ==
    /\ db = <<>>
    /\ trades \in CoreInputs
    /\ arg = NoArg
    /\ op = "init"
    /\ result = NoResult
    /\ analyses = <<>>
    /\ plans = <<>>
    /\ calls = <<>>

CallAnalyzePerformanceInsights ==
    \E period \in PeriodArgs :
        /\ op' = "analyzePerformanceInsights"
        /\ arg' = [period |-> period]
        /\ result' = analyzePerformanceInsights(trades, period)
        /\ UNCHANGED <<db, trades, analyses, plans, calls>>

\* the limits a caller passes: the small ones, and the 50 that getStateHistory
\* passes when its filter names none
LimitArgs == (0..MaxLimit) \cup {50}

\* line 424 sorts the caller's array before the loop reads it
CallAnalyzeStateHistory ==
    \E limit \in LimitArgs :
        /\ op' = "analyzeStateHistory"
        /\ arg' = [limit |-> limit]
        /\ result' = analyzeStateHistory(trades, limit)
        /\ trades' = ArrayAfterStateHistory(trades)
        /\ UNCHANGED <<db, analyses, plans, calls>>

Next ==
    \/ CallAnalyzePsychologicalState
    \/ CallAnalyzeSessionForecast
    \/ CallAnalyzePerformanceInsights
    \/ CallAnalyzeStateHistory

Spec == Init /\ [][Next]_vars

HistoryReturned == op = "analyzeStateHistory" /\ ~Threw(result) /\ Len(result.history) > 0

\* the states of the recorded events, in the order they were recorded
RecordedStates == [i \in 1..Len(result.history) |-> result.history[i].state]

FirstIndexOf(labels, x) == CHOOSE i \in 1..Len(labels) : labels[i] = x /\ \A j \in 1..(i - 1) : labels[j] # x

IsMostCommon(labels, x) ==
    /\ Contains(labels, x)
    /\ \A i \in 1..Len(labels) : CountOf(labels, labels[i]) <= CountOf(labels, x)

CoreOps ==
    {"analyzePsychologicalState", "analyzeSessionForecast",
     "analyzePerformanceInsights", "analyzeStateHistory"}

\* C5: the core is total: each entry point returns a result structure, never
\* raises, for every sequence of well-typed trades and every limit >= 0.
C5_CoreIsTotal == op \in CoreOps => ~Threw(result)

\* C6: no entry point modifies its input: after any call the caller's array
\* holds the same trades in the same order.
C6_InputUnchanged == [][trades' = trades]_vars

\* C11: called with an empty trade sequence, the classifier, the forecaster
\* and the history analyzer each return their fixed structure (the classifier's
\* lastUpdated timestamp aside, which the model leaves out), the forecaster
\* with the session upper-cased; every call gives that same structure.
C11_EmptyInputStructures ==
    Len(trades) = 0 =>
        /\ op = "analyzePsychologicalState" =>
              result = [state |-> "NEUTRAL", confidence |-> 50, riskTolerance |-> 50,
                        emotionalBalance |-> 50,
                        recommendations |-> <<"Start trading to build psychological profile">>]
        /\ op = "analyzeSessionForecast" =>
              result = [session |-> (IF arg.session = "london" THEN "LONDON" ELSE "NY"),
                        forecast |-> "NEUTRAL", probability |-> 50,
                        factors |-> <<[factor |-> "No historical data",
                                       impact |-> "NEUTRAL", weight |-> 10]>>,
                        recommendations |-> <<"Start trading this session to build forecast data">>]
        /\ op = "analyzeStateHistory" =>
              result = [history |-> <<>>,
                        summary |-> [totalChanges |-> 0, mostCommonState |-> "NEUTRAL",
                                     averageConfidence |-> 50, volatility |-> 0]]

\* the forecaster called on no trades with a lower-case session label
C11_Witness ==
    /\ Len(trades) = 0
    /\ op = "analyzeSessionForecast"
    /\ arg.session = "london"
    /\ result.session = "LONDON"
    /\ result.probability = 50

\* C12: analyzePerformanceInsights called with no trades returns exactly one
\* insight {OPPORTUNITY, "No trading data available for analysis", 100, LOW},
\* an empty patterns array, the single recommendation "Start trading to
\* generate performance insights" and the period label it was given.
C12_EmptyInsights ==
    (op = "analyzePerformanceInsights" /\ Len(trades) = 0) =>
        /\ DOMAIN result = {"period", "insights", "patterns", "recommendations"}
        /\ result.period = arg.period
        /\ result.insights = <<[type |-> "OPPORTUNITY",
                                description |-> "No trading data available for analysis",
                                confidence |-> 100, impact |-> "LOW"]>>
        /\ result.patterns = <<>>
        /\ result.recommendations = <<"Start trading to generate performance insights">>

\* the insight generator called on no trades with the label '7d'
C12_Witness ==
    /\ op = "analyzePerformanceInsights"
    /\ Len(trades) = 0
    /\ arg.period = "7d"
    /\ result.period = "7d"
    /\ Len(result.insights) = 1

\* C13: the history's timestamps are non-decreasing whatever order the trades
\* came in, and each entry's timestamp, context.tradeId, context.profitLoss and
\* context.riskPercentUsed are those of one and the same input trade.
C13_HistoryChronological ==
    HistoryReturned =>
        /\ \A i \in 1..(Len(result.history) - 1) :
              result.history[i].timestamp <= result.history[i + 1].timestamp
        /\ \A i \in 1..Len(result.history) :
              \E j \in 1..Len(trades) :
                  /\ trades[j]._id = result.history[i].context.tradeId
                  /\ trades[j].entryTime = result.history[i].timestamp
                  /\ trades[j].profitLoss = result.history[i].context.profitLoss
                  /\ trades[j].riskPercentUsed = result.history[i].context.riskPercentUsed

\* trades supplied newest first (the trade stored first is the later one):
\* the event of the earlier trade comes first in the history
C13_Witness ==
    /\ HistoryReturned
    /\ Len(result.history) = 2
    /\ result.history[1].context.tradeId > result.history[2].context.tradeId
    /\ result.history[1].timestamp < result.history[2].timestamp

\* C14: for every limit >= 1 the returned history has at most limit entries.
C14_HistoryWithinLimit ==
    (op = "analyzeStateHistory" /\ arg.limit >= 1 /\ ~Threw(result)) =>
        Len(result.history) <= arg.limit

\* a limit of 1 cutting the replay short: more trades than the limit, the
\* first two of different states, and a history filled to the limit
C14_Witness ==
    /\ op = "analyzeStateHistory"
    /\ arg.limit = 1
    /\ Len(trades) >= 2
    /\ analyzePsychologicalState(SubSeq(trades, 1, 1)).state
          # analyzePsychologicalState(SubSeq(trades, 1, 2)).state
    /\ Len(result.history) = 1

-----------------------------------------------------------------------------
(* Dates.  A Date is modelled by its day number (days since 1 January 2020, *)
(* the time of day left out); `new Date()` is a calendar date               *)
(* [year, month, date] with month counted from 0 as getMonth() does.        *)

IsLeapYear(y) == (y % 4 = 0 /\ y % 100 # 0) \/ y % 400 = 0

DaysInMonth(y, m) ==
    IF m = 1 THEN (IF IsLeapYear(y) THEN 29 ELSE 28)
    ELSE IF m \in {3, 5, 8, 10} THEN 30 ELSE 31

RECURSIVE DaysBeforeMonth(_, _)
DaysBeforeMonth(y, m) == IF m = 0 THEN 0 ELSE DaysBeforeMonth(y, m - 1) + DaysInMonth(y, m - 1)

RECURSIVE DaysBeforeYear(_)
DaysBeforeYear(y) ==
    IF y <= 2020 THEN 0 ELSE DaysBeforeYear(y - 1) + (IF IsLeapYear(y - 1) THEN 366 ELSE 365)

\* the day a Date lands on once setDate / setMonth / setFullYear have given it
\* the fields (y, m, d): a month outside 0..11 moves the year, a date outside
\* the month runs over into the neighbouring months
DayNumber(y, m, d) ==
    LET yy == y + (m \div 12)
        mm == m % 12
    IN  DaysBeforeYear(yy) + DaysBeforeMonth(yy, mm) + d

\* getDateRange falling back to the WEEK window on a label it does not know
\* (mutant of getDateRange)
getDateRangeWeekFallback(period, now) ==
    [start |->
        CASE period = "WEEK" -> DayNumber(now.year, now.month, now.date - 7)
          [] period = "MONTH" -> DayNumber(now.year, now.month - 1, now.date)
          [] period = "QUARTER" -> DayNumber(now.year, now.month - 3, now.date)
          [] period = "YEAR" -> DayNumber(now.year - 1, now.month, now.date)
          [] OTHER -> DayNumber(now.year, now.month, now.date - 7),
     end |-> DayNumber(now.year, now.month, now.date)]

\* getDateRange(period), with the `new Date()` it reads passed in
getDateRange(period, now) ==
    [start |->
        CASE period = "WEEK" -> DayNumber(now.year, now.month, now.date - 7)
          [] period = "MONTH" -> DayNumber(now.year, now.month - 1, now.date)
          [] period = "QUARTER" -> DayNumber(now.year, now.month - 3, now.date)
          [] period = "YEAR" -> DayNumber(now.year - 1, now.month, now.date)
          [] OTHER -> DayNumber(now.year, now.month - 1, now.date),
     end |-> DayNumber(now.year, now.month, now.date)]

-----------------------------------------------------------------------------
(* The Trade collection and the queries the services make *)

\* .sort({ entryTime: -1 }): newest first, documents with equal entryTime
\* kept in the order the collection holds them
RECURSIVE InsertNewestFirst(_, _)
InsertNewestFirst(sorted, t) ==
    IF sorted = <<>> THEN <<t>>
    ELSE IF sorted[Len(sorted)].entryTime >= t.entryTime THEN Append(sorted, t)
    ELSE Append(InsertNewestFirst(SubSeq(sorted, 1, Len(sorted) - 1), t), sorted[Len(sorted)])

RECURSIVE SortNewestFirstFrom(_, _)
SortNewestFirstFrom(sorted, rest) ==
    IF rest = <<>> THEN sorted
    ELSE SortNewestFirstFrom(InsertNewestFirst(sorted, Head(rest)), Tail(rest))

SortNewestFirst(docs) == SortNewestFirstFrom(<<>>, docs)

\* .limit(n): the first n documents; a limit of 0 is no limit
Limit(docs, n) == IF n = 0 THEN docs ELSE SubSeq(docs, 1, Min(n, Len(docs)))

RECURSIVE Filter(_, _)
Filter(docs, keep) ==
    IF docs = <<>> THEN <<>>
    ELSE IF Head(docs)._id \in keep THEN <<Head(docs)>> \o Filter(Tail(docs), keep)
    ELSE Filter(Tail(docs), keep)

\* a query that does not look at userId (mutant of Matches)
MatchesAnyUser(doc, query) ==
    /\ ("session" \in DOMAIN query => doc.session = query.session)
    /\ ("gte" \in DOMAIN query => doc.entryTime >= query.gte)
    /\ ("lte" \in DOMAIN query => doc.entryTime <= query.lte)

\* Trade.find(query): the documents matching every condition the query
\* holds; gte and lte are the $gte and $lte bounds on entryTime
Matches(doc, query) ==
    /\ doc.userId = query.userId
    /\ ("session" \in DOMAIN query => doc.session = query.session)
    /\ ("gte" \in DOMAIN query => doc.entryTime >= query.gte)
    /\ ("lte" \in DOMAIN query => doc.entryTime <= query.lte)

Find(docs, query) ==
    Filter(docs, {docs[i]._id : i \in {j \in 1..Len(docs) : Matches(docs[j], query)}})

\* the _id a new document gets: one no stored document has (here the least)
NextId(docs) ==
    LET ids == {docs[i]._id : i \in 1..Len(docs)}
    IN  CHOOSE m \in 1..(Len(docs) + 1) : m \notin ids /\ \A k \in 1..(m - 1) : k \in ids

\* createTrade: new Trade({ userId, ...tradeBody }).save()
createTrade(docs, userId, tradeBody) ==
    Append(docs, [tradeBody EXCEPT !._id = NextId(docs), !.userId = userId])

\* getCurrentState, lines 494 and 499
RecentTrades(docs, userId) == Limit(SortNewestFirst(Find(docs, [userId |-> userId])), 10)

\* getSessionForecast, lines 515-521
SessionTrades(docs, userId, session) ==
    Limit(SortNewestFirst(Find(docs, [userId |-> userId, session |-> ToUpperCase(session)])), 20)

\* getPerformanceInsights, lines 542-550
PeriodTrades(docs, userId, period, now) ==
    LET dateRange == getDateRange(period, now)
    IN  SortNewestFirst(Find(docs, [userId |-> userId, gte |-> dateRange.start, lte |-> dateRange.end]))

\* getStateHistory, lines 570-586: the filter holds startDate, endDate and
\* limit only when the caller gave them
HistoryQuery(userId, filter) ==
    LET q0 == [userId |-> userId]
        q1 == IF "startDate" \in DOMAIN filter THEN [gte |-> filter.startDate] @@ q0 ELSE q0
    IN  IF "endDate" \in DOMAIN filter THEN [lte |-> filter.endDate] @@ q1 ELSE q1

HistoryLimit(filter) == IF "limit" \in DOMAIN filter THEN filter.limit ELSE 50

HistoryTrades(docs, userId, filter) ==
    Limit(SortNewestFirst(Find(docs, HistoryQuery(userId, filter))), HistoryLimit(filter) * 2)

-----------------------------------------------------------------------------
(* The services over the Trade collection: SpecService *)

MaxDb == 2

Users == {1, 2}

\* `new Date()` at the time of a call: 31 March 2023 and 15 January 2024
Nows == {[year |-> 2023, month |-> 2, date |-> 31], [year |-> 2024, month |-> 0, date |-> 15]}

\* entry times on 10 March and 28 March 2023
EntryTimes == {DayNumber(2023, 2, 10), DayNumber(2023, 2, 28)}

TradeBodies ==
    {Trade(0, 0, time, 100, 50, 20, "LONDON", FALSE, FALSE, 100) : time \in EntryTimes}
    \cup {Trade(0, 0, time, -50, 5, 5, "NY", TRUE, FALSE, 0) : time \in EntryTimes}

\* the period labels of the service, and the ones its tests pass
ServicePeriods == {"WEEK", "MONTH", "YEAR", "30d"}

InitService ==
    /\ db = <<>>
    /\ trades = <<>>
    /\ arg = NoArg
    /\ op = "init"
    /\ result = NoResult
    /\ analyses = <<>>
    /\ plans = <<>>
    /\ calls = <<>>

\* (trades holds the array an analysis call fetched; a trade call fetches none)
CreateTrade ==
    \E userId \in Users, tradeBody \in TradeBodies :
        /\ Len(db) < MaxDb
        /\ db' = createTrade(db, userId, tradeBody)
        /\ op' = "createTrade"
        /\ arg' = [userId |-> userId]
        /\ result' = db'[Len(db')]
        /\ trades' = <<>>
        /\ UNCHANGED <<analyses, plans, calls>>

GetCurrentState ==
    \E userId \in Users :
        /\ op' = "getCurrentState"
        /\ arg' = [userId |-> userId]
        /\ trades' = RecentTrades(db, userId)
        /\ result' = analyzePsychologicalState(trades')
        /\ UNCHANGED <<db, analyses, plans, calls>>

GetSessionForecast ==
    \E userId \in Users, session \in {"LONDON", "ny"} :
        /\ op' = "getSessionForecast"
        /\ arg' = [userId |-> userId, session |-> session]
        /\ trades' = SessionTrades(db, userId, session)
        /\ result' = analyzeSessionForecast(trades', session)
        /\ UNCHANGED <<db, analyses, plans, calls>>

GetPerformanceInsights ==
    \E userId \in Users, period \in ServicePeriods, now \in Nows :
        /\ op' = "getPerformanceInsights"
        /\ arg' = [userId |-> userId, period |-> period, now |-> now]
        /\ trades' = PeriodTrades(db, userId, period, now)
        /\ result' = analyzePerformanceInsights(trades', period)
        /\ UNCHANGED <<db, analyses, plans, calls>>

\* the filters a caller passes: none, a limit, a start date (20 March 2023)
HistoryFilters ==
    {[none |-> TRUE], [limit |-> 1], [startDate |-> DayNumber(2023, 2, 20)]}

\* the fetched array is the one analyzeStateHistory sorts
GetStateHistory ==
    \E userId \in Users, filter \in HistoryFilters :
        /\ op' = "getStateHistory"
        /\ arg' = [userId |-> userId, filter |-> filter]
        /\ LET fetched == HistoryTrades(db, userId, filter)
           IN  /\ trades' = ArrayAfterStateHistory(fetched)
               /\ result' = analyzeStateHistory(fetched, HistoryLimit(filter))
        /\ UNCHANGED <<db, analyses, plans, calls>>

NextService ==
    \/ CreateTrade
    \/ GetCurrentState
    \/ GetSessionForecast
    \/ GetPerformanceInsights
    \/ GetStateHistory

SpecService == InitService /\ [][NextService]_vars

\* C3: with no trade of the user inside the period window,
\* getPerformanceInsights returns exactly {period, insights: [], summary:
\* "No trading data available for analysis"}.
C3_EmptyInsightsWithSummary ==
    (op = "getPerformanceInsights" /\ Len(trades) = 0) =>
        result = [period |-> arg.period, insights |-> <<>>,
                  summary |-> "No trading data available for analysis"]

-----------------------------------------------------------------------------
(* The dashboard service (src/unnamed/part_004).  Figures the code rounds   *)
(* with Math.round(x * 100) / 100 are held as the integer Math.round(x *    *)
(* 100), that is, in hundredths.                                            *)

\* getDateRange of the dashboard service, with the `new Date()` it reads
\* passed in
dashboardDateRange(period, now) ==
    [start |->
        CASE period = "WEEK" -> DayNumber(now.year, now.month, now.date - 7)
          [] period = "MONTH" -> DayNumber(now.year, now.month - 1, now.date)
          [] period = "QUARTER" -> DayNumber(now.year, now.month - 3, now.date)
          [] period = "YEAR" -> DayNumber(now.year - 1, now.month, now.date)
          [] OTHER -> DayNumber(now.year, now.month - 1, now.date),
     end |-> DayNumber(now.year, now.month, now.date)]

ProfitsOf(ts) == [i \in 1..Len(ts) |-> ts[i].profitLoss]

\* Math.max(...profits) and Math.min(...profits), profits not empty
MaxOf(xs) == CHOOSE x \in {xs[i] : i \in 1..Len(xs)} : \A i \in 1..Len(xs) : xs[i] <= x
MinOf(xs) == CHOOSE x \in {xs[i] : i \in 1..Len(xs)} : \A i \in 1..Len(xs) : xs[i] >= x

calculateSummaryStats(ts) ==
    IF Len(ts) = 0 THEN
        [totalTrades |-> 0, winningTrades |-> 0, losingTrades |-> 0, winRate |-> 0,
         totalProfitLoss |-> 0, averageRiskReward |-> 0, bestTrade |-> 0, worstTrade |-> 0]
    ELSE
        [totalTrades |-> Len(ts),
         winningTrades |-> CountWinning(ts),
         losingTrades |-> Cardinality({i \in 1..Len(ts) : ts[i].profitLoss < 0}),
         winRate |-> MathRoundTimes100(WinRate(ts)),
         totalProfitLoss |-> MathRoundTimes100(RInt(SumProfitLoss(ts))),
         averageRiskReward |-> MathRoundTimes100(Rat(SumRiskRewardTenths(ts), 10 * Len(ts))),
         bestTrade |-> MathRoundTimes100(RInt(MaxOf(ProfitsOf(ts)))),
         worstTrade |-> MathRoundTimes100(RInt(MinOf(ProfitsOf(ts))))]

\* the entries of dailyPnL sorted by date.  The key of a trade is the calendar
\* day of its entryTime, which is what the model holds as entryTime; dates are
\* distinct keys, so the order is the ascending order of the dates
RECURSIVE DailyEntries(_, _)
DailyEntries(ts, dates) ==
    IF dates = {} THEN <<>>
    ELSE
        LET first == CHOOSE d \in dates : \A e \in dates : d <= e
            onDay == {i \in 1..Len(ts) : ts[i].entryTime = first}
        IN  <<[date |-> first,
               profitLoss |-> MathRoundTimes100(
                   RInt(SumInts([i \in 1..Len(ts) |-> IF i \in onDay THEN ts[i].profitLoss ELSE 0])))]>>
            \o DailyEntries(ts, dates \ {first})

calculateDailyPnL(ts) == DailyEntries(ts, {ts[i].entryTime : i \in 1..Len(ts)})

\* the trades of one session, in the order of the array
RECURSIVE OfSession(_, _)
OfSession(ts, session) ==
    IF ts = <<>> THEN <<>>
    ELSE IF Head(ts).session = session THEN <<Head(ts)>> \o OfSession(Tail(ts), session)
    ELSE OfSession(Tail(ts), session)

\* Object.entries(sessionStats): one entry per session, in the order in which
\* the sessions first occur
calculateSessionPerformance(ts) ==
    LET keys == KeysOf(Sessions(ts))
    IN  [k \in 1..Len(keys) |->
            LET mine == OfSession(ts, keys[k])
            IN  [session |-> keys[k],
                 trades |-> Len(mine),
                 profitLoss |-> MathRoundTimes100(RInt(SumProfitLoss(mine))),
                 winRate |-> MathRoundTimes100(WinRate(mine))]]

\* lines 150-153: peak, maxDrawdown and runningPnL before the first trade
DrawdownStart == [peak |-> 0, maxDrawdown |-> 0, runningPnL |-> 0]

\* the loop body with the peak never raised (mutant of DrawdownStep)
DrawdownStepPeakNotRaised(acc, trade) ==
    LET runningPnL == acc.runningPnL + trade.profitLoss
        drawdown == acc.peak - runningPnL
    IN  [peak |-> acc.peak,
         maxDrawdown |-> IF drawdown > acc.maxDrawdown THEN drawdown ELSE acc.maxDrawdown,
         runningPnL |-> runningPnL]

\* lines 155-164: the body of the forEach
DrawdownStep(acc, trade) ==
    LET runningPnL == acc.runningPnL + trade.profitLoss
        peak == IF runningPnL > acc.peak THEN runningPnL ELSE acc.peak
        drawdown == peak - runningPnL
    IN  [peak |-> peak,
         maxDrawdown |-> IF drawdown > acc.maxDrawdown THEN drawdown ELSE acc.maxDrawdown,
         runningPnL |-> runningPnL]

\* trades.forEach, in the order of the array
RECURSIVE DrawdownLoop(_, _)
DrawdownLoop(acc, ts) ==
    IF ts = <<>> THEN acc ELSE DrawdownLoop(DrawdownStep(acc, Head(ts)), Tail(ts))

RECURSIVE Gcd(_, _)
Gcd(a, b) == IF b = 0 THEN a ELSE Gcd(b, a % b)

\* the largest r in lo..hi with r * r <= x, given lo * lo <= x < (hi + 1) * (hi + 1)
RECURSIVE FloorSqrtIn(_, _, _)
FloorSqrtIn(x, lo, hi) ==
    IF lo = hi THEN lo
    ELSE LET mid == (lo + hi + 1) \div 2
         IN  IF mid * mid <= x THEN FloorSqrtIn(x, mid, hi) ELSE FloorSqrtIn(x, lo, mid - 1)

\* the integer parts of Math.sqrt(x); 46340 is the largest root of a 32-bit integer
FloorSqrt(x) == FloorSqrtIn(x, 0, IF x < 46340 THEN x ELSE 46340)
CeilSqrt(x) == IF FloorSqrt(x) * FloorSqrt(x) = x THEN FloorSqrt(x) ELSE FloorSqrt(x) + 1

\* lines 166-171, in hundredths.  With S the sum of the returns, n their number
\* and D = n * sum(r^2) - S^2, avgReturn is S / n, the variance is D / n^2 and
\* avgReturn / stdDev is S / sqrt(D); Math.round(100 * S / sqrt(D)) is worked
\* out on z = 200 * |S| / sqrt(D) = sqrt(40000 * S^2 / D), the fraction S^2 / D
\* reduced first
SharpeRatio(returns) ==
    LET n == Len(returns)
        S == SumInts(returns)
        D == n * SumInts([i \in 1..n |-> returns[i] * returns[i]]) - S * S
    IN  IF D > 0 THEN
            LET g == Gcd(S * S, D)
                num == 40000 * ((S * S) \div g)
                den == D \div g
            IN  IF S >= 0 THEN (FloorSqrt(num \div den) + 1) \div 2
                ELSE -(CeilSqrt((num + den - 1) \div den) \div 2)
        ELSE 0

calculateRiskMetrics(ts) ==
    IF Len(ts) = 0 THEN [averageRiskPerTrade |-> 0, maxDrawdown |-> 0, sharpeRatio |-> 0]
    ELSE
        [averageRiskPerTrade |-> MathRoundTimes100(AvgRisk(ts)),
         maxDrawdown |-> MathRoundTimes100(RInt(DrawdownLoop(DrawdownStart, ts).maxDrawdown)),
         sharpeRatio |-> SharpeRatio(ProfitsOf(ts))]

\* lines 200-206, 211-217 and 222-228: second half against first half
Trend(firstHalf, secondHalf) ==
    IF RGt(secondHalf, firstHalf) THEN "UP"
    ELSE IF RLt(secondHalf, firstHalf) THEN "DOWN"
    ELSE "STABLE"

\* the split at the midpoint rounded up (mutant of calculateTrends)
calculateTrendsSplitRoundedUp(ts) ==
    IF Len(ts) < 2 THEN [pnlTrend |-> "STABLE", winRateTrend |-> "STABLE", riskTrend |-> "STABLE"]
    ELSE
        LET midPoint == (Len(ts) + 1) \div 2
            firstHalf == SubSeq(ts, 1, midPoint)
            secondHalf == SubSeq(ts, midPoint + 1, Len(ts))
        IN  [pnlTrend |-> Trend(RInt(SumProfitLoss(firstHalf)), RInt(SumProfitLoss(secondHalf))),
             winRateTrend |-> Trend(Rat(CountWinning(firstHalf), Len(firstHalf)),
                                    Rat(CountWinning(secondHalf), Len(secondHalf))),
             riskTrend |-> Trend(AvgRisk(firstHalf), AvgRisk(secondHalf))]

calculateTrends(ts) ==
    IF Len(ts) < 2 THEN [pnlTrend |-> "STABLE", winRateTrend |-> "STABLE", riskTrend |-> "STABLE"]
    ELSE
        LET midPoint == Len(ts) \div 2
            firstHalf == SubSeq(ts, 1, midPoint)
            secondHalf == SubSeq(ts, midPoint + 1, Len(ts))
        IN  [pnlTrend |-> Trend(RInt(SumProfitLoss(firstHalf)), RInt(SumProfitLoss(secondHalf))),
             winRateTrend |-> Trend(Rat(CountWinning(firstHalf), Len(firstHalf)),
                                    Rat(CountWinning(secondHalf), Len(secondHalf))),
             riskTrend |-> Trend(AvgRisk(firstHalf), AvgRisk(secondHalf))]

Alert(type, message, priority) == [type |-> type, message |-> message, priority |-> priority]

\* lines 254-266
WinRateAlert(alerts, winRate) ==
    IF RGe(winRate, Rat(7, 10)) THEN
        Append(alerts, Alert("SUCCESS", "Excellent win rate achieved", "MEDIUM"))
    ELSE IF RLe(winRate, Rat(3, 10)) THEN
        Append(alerts, Alert("WARNING", "Low win rate - review trading strategy", "HIGH"))
    ELSE alerts

\* lines 269-281
RiskAlert(alerts, avgRisk) ==
    IF RGt(avgRisk, RInt(3)) THEN
        Append(alerts, Alert("WARNING", "Risk per trade above recommended level", "HIGH"))
    ELSE IF RLt(avgRisk, RInt(1)) THEN
        Append(alerts, Alert("INFO", "Consider increasing position sizes gradually", "LOW"))
    ELSE alerts

\* lines 284-296
RecentPerformanceAlert(alerts, recentWinRate, winRate) ==
    IF RGt(recentWinRate, RAdd(winRate, Rat(2, 10))) THEN
        Append(alerts, Alert("SUCCESS", "Recent performance showing improvement", "MEDIUM"))
    ELSE IF RLt(recentWinRate, RSub(winRate, Rat(2, 10))) THEN
        Append(alerts, Alert("WARNING", "Recent performance declining", "HIGH"))
    ELSE alerts

\* lines 299-311
StateAlert(alerts, psychologicalState) ==
    IF psychologicalState.state = "GREEDY" THEN
        Append(alerts, Alert("WARNING", "High risk tolerance detected - reduce position sizes", "HIGH"))
    ELSE IF psychologicalState.state = "FEARFUL" THEN
        Append(alerts, Alert("INFO", "Low confidence detected - consider taking a break", "MEDIUM"))
    ELSE alerts

\* trades.slice(-3) (mutant of LastFive)
LastThree(ts) == SubSeq(ts, Max(0, Len(ts) - 3) + 1, Len(ts))

\* trades.slice(-5)
LastFive(ts) == SubSeq(ts, Max(0, Len(ts) - 5) + 1, Len(ts))

generateAlerts(ts, psychologicalState) ==
    IF Len(ts) = 0 THEN <<>>
    ELSE
        LET winRate == Rat(CountWinning(ts), Len(ts))
            recentTrades == LastFive(ts)
            recentWinRate == Rat(CountWinning(recentTrades), Len(recentTrades))
            a1 == WinRateAlert(<<>>, winRate)
            a2 == RiskAlert(a1, AvgRisk(ts))
            a3 == RecentPerformanceAlert(a2, recentWinRate, winRate)
        IN  StateAlert(a3, psychologicalState)

-----------------------------------------------------------------------------
(* The dashboard's calculations on one array: SpecMetrics *)

MaxMetricTrades == 3

\* profits of 50 and 100 and a loss of 150; trades of day 1 in the LONDON
\* session at a risk of 0.5 and trades of day 2 in the NY session at a risk of 5.0
MetricTrades ==
    {Trade(0, 1, day, pl, IF day = 1 THEN 5 ELSE 50, 10,
           IF day = 1 THEN "LONDON" ELSE "NY", FALSE, FALSE, 100) :
        day \in {1, 2}, pl \in {-150, 50, 100}}

MaxMetricBlock == 7

\* longer arrays, of 4 trades and more: a run of LONDON trades of one P&L at a
\* risk of 0.5 followed by a run of NY trades of one P&L at a risk of 5.0
MetricBlocks ==
    {WithIds(Repeat(Trade(0, 1, 1, first, 5, 10, "LONDON", FALSE, FALSE, 100), b[1])
             \o Repeat(Trade(0, 1, 2, second, 50, 10, "NY", FALSE, FALSE, 100), b[2])) :
        b \in {c \in (0..MaxMetricBlock) \X (0..MaxMetricBlock) : c[1] + c[2] \in 4..MaxMetricBlock},
        first \in {-150, 100}, second \in {-150, 100}}

MetricInputs == {WithIds(s) : s \in SeqsUpTo(MetricTrades, MaxMetricTrades)} \cup MetricBlocks

InitMetrics ==
    /\ db = <<>>
    /\ trades \in MetricInputs
    /\ arg = NoArg
    /\ op = "init"
    /\ result = NoResult
    /\ analyses = <<>>
    /\ plans = <<>>
    /\ calls = <<>>

CallCalculateSummaryStats ==
    /\ op' = "calculateSummaryStats"
    /\ arg' = NoArg
    /\ result' = calculateSummaryStats(trades)
    /\ UNCHANGED <<db, trades, analyses, plans, calls>>

CallCalculateDailyPnL ==
    /\ op' = "calculateDailyPnL"
    /\ arg' = NoArg
    /\ result' = calculateDailyPnL(trades)
    /\ UNCHANGED <<db, trades, analyses, plans, calls>>

CallCalculateSessionPerformance ==
    /\ op' = "calculateSessionPerformance"
    /\ arg' = NoArg
    /\ result' = calculateSessionPerformance(trades)
    /\ UNCHANGED <<db, trades, analyses, plans, calls>>

CallCalculateRiskMetrics ==
    /\ op' = "calculateRiskMetrics"
    /\ arg' = NoArg
    /\ result' = calculateRiskMetrics(trades)
    /\ UNCHANGED <<db, trades, analyses, plans, calls>>

CallCalculateTrends ==
    /\ op' = "calculateTrends"
    /\ arg' = NoArg
    /\ result' = calculateTrends(trades)
    /\ UNCHANGED <<db, trades, analyses, plans, calls>>

\* the second argument is a classifier result: that of some array of the model
CallGenerateAlerts ==
    \E recent \in {ts \in MetricInputs : Len(ts) <= 1} :
        /\ op' = "generateAlerts"
        /\ arg' = [psychologicalState |-> analyzePsychologicalState(recent)]
        /\ result' = generateAlerts(trades, arg'.psychologicalState)
        /\ UNCHANGED <<db, trades, analyses, plans, calls>>

NextMetrics ==
    \/ CallCalculateSummaryStats
    \/ CallCalculateDailyPnL
    \/ CallCalculateSessionPerformance
    \/ CallCalculateRiskMetrics
    \/ CallCalculateTrends
    \/ CallGenerateAlerts

SpecMetrics == InitMetrics /\ [][NextMetrics]_vars

RiskMetricsCalled == op = "calculateRiskMetrics" /\ Len(trades) > 0

\* the cumulative P&L after the first j trades of the array
CumulativePnL(j) == SumInts([i \in 1..j |-> trades[i].profitLoss])

\* the highest cumulative P&L reached at positions 1..j
PeakOfPositions(j) ==
    CHOOSE p \in {CumulativePnL(i) : i \in 1..j} : \A i \in 1..j : CumulativePnL(i) <= p

\* the highest cumulative P&L reached at positions 0..j, position 0 being the
\* start, where the cumulative P&L is 0
PeakFromStart(j) ==
    CHOOSE p \in {CumulativePnL(i) : i \in 0..j} : \A i \in 0..j : CumulativePnL(i) <= p

\* C15 as claimed: maxDrawdown is the maximum over the positions j of the
\* array, taken in the given order, of the highest cumulative P&L reached at
\* positions up to and including j minus the cumulative P&L at j.
C15_DrawdownFromPeakOfPositions ==
    RiskMetricsCalled =>
        /\ \A j \in 1..Len(trades) :
              100 * (PeakOfPositions(j) - CumulativePnL(j)) <= result.maxDrawdown
        /\ \E j \in 1..Len(trades) :
              100 * (PeakOfPositions(j) - CumulativePnL(j)) = result.maxDrawdown

\* C15 as amended: the running peak starts at 0, the cumulative P&L before the
\* first trade, so maxDrawdown is the maximum over the positions j of the
\* highest of 0 and the cumulative P&L reached up to j, minus the cumulative
\* P&L at j.
C15_DrawdownFromPeakFromStart ==
    RiskMetricsCalled =>
        /\ \A j \in 1..Len(trades) :
              100 * (PeakFromStart(j) - CumulativePnL(j)) <= result.maxDrawdown
        /\ \E j \in 1..Len(trades) :
              100 * (PeakFromStart(j) - CumulativePnL(j)) = result.maxDrawdown

\* the spec's example: the P&L sequence 100, -150, 50 gives 150
C15_Witness ==
    /\ RiskMetricsCalled
    /\ ProfitsOf(trades) = <<100, -150, 50>>
    /\ result.maxDrawdown = 15000

-----------------------------------------------------------------------------
(* The dashboard service over the Trade collection: SpecDashboard *)

\* every trade of the user, with no limit of 10 (mutant of getCurrentState)
getCurrentStateOfAllTrades(docs, userId) ==
    analyzePsychologicalState(SortNewestFirst(Find(docs, [userId |-> userId])))

\* analysisService.getCurrentState(userId), lines 490-503 of analysis.service.js
getCurrentState(docs, userId) == analyzePsychologicalState(RecentTrades(docs, userId))

\* analysisService.getPerformanceInsights(userId, period), lines 538-559
getPerformanceInsights(docs, userId, period, now) ==
    analyzePerformanceInsights(PeriodTrades(docs, userId, period, now), period)

\* the period trades sorted oldest first (mutant of DashboardTrades)
DashboardTradesOldestFirst(docs, userId, period, now) ==
    LET dateRange == dashboardDateRange(period, now)
    IN  SortFrom(<<>>, Find(docs, [userId |-> userId, gte |-> dateRange.start, lte |-> dateRange.end]))

\* the period trades of both dashboard calls: lines 329-335 and 391-397
DashboardTrades(docs, userId, period, now) ==
    LET dateRange == dashboardDateRange(period, now)
    IN  SortNewestFirst(Find(docs, [userId |-> userId, gte |-> dateRange.start, lte |-> dateRange.end]))

\* lines 352-360: trades.slice(0, 10).map(...); exitTime is not in the model
RecentTradeRows(ts) ==
    [i \in 1..Min(10, Len(ts)) |->
        [id |-> ts[i]._id, entryTime |-> ts[i].entryTime, profitLoss |-> ts[i].profitLoss,
         session |-> ts[i].session, riskPercentUsed |-> ts[i].riskPercentUsed,
         riskRewardAchieved |-> ts[i].riskRewardAchieved]]

getCompleteDashboard(docs, userId, period, now) ==
    LET ts == DashboardTrades(docs, userId, period, now)
    IN  [period |-> period,
         summary |-> calculateSummaryStats(ts),
         psychologicalState |-> getCurrentState(docs, userId),
         performance |-> [dailyPnL |-> calculateDailyPnL(ts),
                          sessionPerformance |-> calculateSessionPerformance(ts),
                          riskMetrics |-> calculateRiskMetrics(ts)],
         insights |-> getPerformanceInsights(docs, userId, period, now).insights,
         recentTrades |-> RecentTradeRows(ts)]

getDashboardSummary(docs, userId, period, now) ==
    LET ts == DashboardTrades(docs, userId, period, now)
        psychologicalState == getCurrentState(docs, userId)
        summaryStats == calculateSummaryStats(ts)
    IN  [period |-> period,
         quickStats |-> [totalTrades |-> summaryStats.totalTrades,
                         winRate |-> summaryStats.winRate,
                         totalPnL |-> summaryStats.totalProfitLoss,
                         avgRiskReward |-> summaryStats.averageRiskReward,
                         currentState |-> psychologicalState.state,
                         confidence |-> psychologicalState.confidence],
         trends |-> calculateTrends(ts),
         alerts |-> generateAlerts(ts, psychologicalState)]

\* a store filled by createBulkTrades: eleven winning trades of user 1, one of
\* 1 February 2023 at a risk of 5.0 and ten of 11 to 20 March 2023 at a risk of 3.0
BulkStore ==
    WithIds(<<Trade(0, 1, DayNumber(2023, 1, 1), 100, 50, 10, "LONDON", FALSE, FALSE, 100)>>
            \o [k \in 1..10 |->
                   Trade(0, 1, DayNumber(2023, 2, 10 + k), 100, 30, 10, "LONDON", FALSE, FALSE, 100)])

\* a second store filled by createBulkTrades: ten trades of user 2 at a risk
\* of 2.0, five losing ones of 11 to 15 March 2023 and then five winning ones
\* of 16 to 20 March 2023
ImprovingStore ==
    WithIds([k \in 1..10 |->
        IF k <= 5
        THEN Trade(0, 2, DayNumber(2023, 2, 10 + k), -50, 20, 10, "NY", TRUE, FALSE, 0)
        ELSE Trade(0, 2, DayNumber(2023, 2, 10 + k), 100, 20, 10, "NY", FALSE, FALSE, 100)])

\* the period labels the dashboard is asked for
DashboardPeriods == {"WEEK", "MONTH"}

InitDashboard ==
    /\ db \in {<<>>, BulkStore, ImprovingStore}
    /\ trades = <<>>
    /\ arg = NoArg
    /\ op = "init"
    /\ result = NoResult
    /\ analyses = <<>>
    /\ plans = <<>>
    /\ calls = <<>>

GetCompleteDashboard ==
    \E userId \in Users, period \in DashboardPeriods, now \in Nows :
        /\ op' = "getCompleteDashboard"
        /\ arg' = [userId |-> userId, period |-> period, now |-> now]
        /\ trades' = DashboardTrades(db, userId, period, now)
        /\ result' = getCompleteDashboard(db, userId, period, now)
        /\ UNCHANGED <<db, analyses, plans, calls>>

GetDashboardSummary ==
    \E userId \in Users, period \in DashboardPeriods, now \in Nows :
        /\ op' = "getDashboardSummary"
        /\ arg' = [userId |-> userId, period |-> period, now |-> now]
        /\ trades' = DashboardTrades(db, userId, period, now)
        /\ result' = getDashboardSummary(db, userId, period, now)
        /\ UNCHANGED <<db, analyses, plans, calls>>

NextDashboard ==
    \/ CreateTrade
    \/ GetCompleteDashboard
    \/ GetDashboardSummary

SpecDashboard == InitDashboard /\ [][NextDashboard]_vars

DashboardCalled == op \in {"getCompleteDashboard", "getDashboardSummary"}

\* the stored trades of the user of the last call
OwnTrades == {i \in 1..Len(db) : db[i].userId = arg.userId}

\* how many of the user's trades come before trade i, newest first (of two
\* trades of one entryTime the one stored first comes first)
NewerThan(i) ==
    Cardinality({j \in OwnTrades :
        \/ db[j].entryTime > db[i].entryTime
        \/ (db[j].entryTime = db[i].entryTime /\ j < i)})

\* the user's ten most recent trades by entryTime
TenMostRecent == Filter(db, {db[i]._id : i \in {j \in OwnTrades : NewerThan(j) < 10}})

\* the user's trades inside the period window of the last call
InWindow ==
    {i \in OwnTrades :
        /\ db[i].entryTime >= dashboardDateRange(arg.period, arg.now).start
        /\ db[i].entryTime <= dashboardDateRange(arg.period, arg.now).end}

\* C16: in both dashboard calls the psychological state is the classifier's
\* result on the user's 10 most recent trades by entryTime, whatever the
\* period, while the summary statistics, the trends and the alerts are computed
\* from the user's trades inside the period window only.
C16_StateIgnoresPeriod ==
    DashboardCalled =>
        LET state == analyzePsychologicalState(TenMostRecent)
        IN  /\ {trades[i]._id : i \in 1..Len(trades)} = {db[i]._id : i \in InWindow}
            /\ Len(trades) = Cardinality(InWindow)
            /\ op = "getCompleteDashboard" =>
                  /\ result.psychologicalState = state
                  /\ result.summary = calculateSummaryStats(trades)
                  /\ result.summary.totalTrades = Cardinality(InWindow)
            /\ op = "getDashboardSummary" =>
                  /\ result.quickStats.currentState = state.state
                  /\ result.quickStats.confidence = state.confidence
                  /\ result.quickStats.totalTrades = Cardinality(InWindow)
                  /\ result.trends = calculateTrends(trades)
                  /\ result.alerts = generateAlerts(trades, state)

\* a dashboard of no trade in the period and a state that is not NEUTRAL, the
\* user having more than ten trades
C16_Witness ==
    /\ op = "getCompleteDashboard"
    /\ Cardinality(OwnTrades) > 10
    /\ result.summary.totalTrades = 0
    /\ result.psychologicalState.state = "CONFIDENT"

-----------------------------------------------------------------------------
(* Properties of the services, checked under SpecService *)

KnownPeriods == {"WEEK", "MONTH", "QUARTER", "YEAR"}

\* the stored trades of the user of the last call with an entryTime from one
\* calendar month before the `now` of the call up to that `now`
TradesOfLastMonth ==
    {i \in 1..Len(db) :
        /\ db[i].userId = arg.userId
        /\ db[i].entryTime >= DayNumber(arg.now.year, arg.now.month - 1, arg.now.date)
        /\ db[i].entryTime <= DayNumber(arg.now.year, arg.now.month, arg.now.date)}

\* C17: on a period label other than WEEK, MONTH, QUARTER and YEAR getDateRange
\* does not fail and returns the window of MONTH, which starts one calendar
\* month before its end, now; the insights result still carries the label as
\* it was supplied.
C17_UnknownPeriodIsMonth ==
    (op = "getPerformanceInsights" /\ arg.period \notin KnownPeriods) =>
        /\ getDateRange(arg.period, arg.now) = getDateRange("MONTH", arg.now)
        /\ {trades[i]._id : i \in 1..Len(trades)} = {db[i]._id : i \in TradesOfLastMonth}
        /\ ~Threw(result)
        /\ result.period = arg.period

\* the label '30d' on 31 March 2023 with a trade of 10 March: inside the
\* window of MONTH, outside the windows of WEEK
C17_Witness ==
    /\ op = "getPerformanceInsights"
    /\ arg.period = "30d"
    /\ arg.now = [year |-> 2023, month |-> 2, date |-> 31]
    /\ \E i \in 1..Len(trades) : trades[i].entryTime = DayNumber(2023, 2, 10)
    /\ result.period = "30d"

-----------------------------------------------------------------------------
(* State history and the StateAnalysis collection: SpecStateHistory *)

MaxAnalyses == 1

\* the paths stateAnalysisSchema requires and gives no default
RequiredPaths == {"state", "confidence", "analyzedTradeCount", "dateRange"}

\* the object the service test builds its record from, which names neither
\* analyzedTradeCount nor dateRange, and one that names every required path
AnalysisBodies ==
    {[state |-> "CONFIDENT", confidence |-> 75, riskTolerance |-> 70, emotionalBalance |-> 80,
      recommendations |-> <<"Continue current approach">>],
     [state |-> "CONFIDENT", confidence |-> 75, analyzedTradeCount |-> 10,
      dateRange |-> [from |-> DayNumber(2023, 2, 1), to |-> DayNumber(2023, 2, 31)]]}

ValidationError == [error |-> "ValidationError"]

\* new StateAnalysis({ userId, ...body }).save(): validation rejects a record
\* that lacks a required path.  The schema declares no userId path, so the
\* stored document does not carry the userId it was built with: constructedFor
\* keeps it beside the document
SaveStateAnalysis ==
    \E userId \in Users, body \in AnalysisBodies :
        /\ Len(analyses) < MaxAnalyses
        /\ op' = "saveStateAnalysis"
        /\ arg' = [userId |-> userId]
        /\ IF RequiredPaths \subseteq DOMAIN body THEN
               /\ analyses' = Append(analyses,
                      [constructedFor |-> userId,
                       document |-> [state |-> body.state, confidence |-> body.confidence,
                                     indicators |-> <<>>,
                                     analyzedTradeCount |-> body.analyzedTradeCount,
                                     dateRange |-> body.dateRange]])
               /\ result' = analyses'[Len(analyses')].document
           ELSE
               /\ analyses' = analyses
               /\ result' = ValidationError
        /\ UNCHANGED <<db, trades, plans, calls>>

NextStateHistory ==
    \/ CreateTrade
    \/ SaveStateAnalysis
    \/ GetStateHistory

SpecStateHistory == InitService /\ [][NextStateHistory]_vars

-----------------------------------------------------------------------------
(* The trading-plan service (src/src/services/tradingPlan.service.js):      *)
(* SpecPlans.  Each call runs up to its first await, TradingPlan.findOne,   *)
(* and then step by step from one await to the next; the steps of calls in  *)
(* progress interleave.  A finished call stays in `calls` with its outcome. *)

MaxCalls == 3

PlanFunctions ==
    {"createOrUpdateTradingPlan", "getTradingPlanByUserId", "deleteTradingPlanByUserId"}

\* tradingPlanBody: two plans that differ in riskPercentPerTrade (in tenths)
PlanBodies ==
    {[maxTradesPerDay |-> 3, riskPercentPerTrade |-> risk, targetRiskRewardRatio |-> 2,
      preferredSessions |-> <<"LONDON">>, stopLossDiscipline |-> "ALWAYS"] : risk \in {10, 20}}

NotFound == [error |-> "ApiError: 404 Trading plan not found"]
DocumentNotFoundError == [error |-> "DocumentNotFoundError"]

\* TradingPlan.findOne({ userId }): the first matching document, or null.  The
\* schema indexes userId without `unique`, so several documents may match
FindOnePlan(docs, userId) ==
    IF \E i \in 1..Len(docs) : docs[i].userId = userId THEN
        docs[CHOOSE i \in 1..Len(docs) :
                  /\ docs[i].userId = userId
                  /\ \A j \in 1..(i - 1) : docs[j].userId # userId]
    ELSE Null

HasPlan(docs, id) == \E i \in 1..Len(docs) : docs[i]._id = id

\* tradingPlan.remove(): the document of that _id leaves the collection
RECURSIVE RemovePlan(_, _)
RemovePlan(docs, id) ==
    IF docs = <<>> THEN <<>>
    ELSE IF Head(docs)._id = id THEN RemovePlan(Tail(docs), id)
    ELSE <<Head(docs)>> \o RemovePlan(Tail(docs), id)

\* Object.assign(tradingPlan, tradingPlanBody) and save() of a found document
UpdatePlan(docs, id, body) ==
    [i \in 1..Len(docs) |-> IF docs[i]._id = id THEN [docs[i] EXCEPT !.body = body] ELSE docs[i]]

InitPlans ==
    /\ db = <<>>
    /\ trades = <<>>
    /\ arg = NoArg
    /\ op = "init"
    /\ result = NoResult
    /\ analyses = <<>>
    /\ plans = <<>>
    /\ calls = <<>>

\* a call is made and runs up to its `await TradingPlan.findOne({ userId })`
BeginCall ==
    \E fn \in PlanFunctions, userId \in Users, body \in PlanBodies :
        /\ Len(calls) < MaxCalls
        /\ calls' = Append(calls,
               [fn |-> fn, userId |-> userId, body |-> body, pc |-> "findOne",
                tradingPlan |-> Null, outcome |-> NoResult])
        /\ UNCHANGED <<db, trades, arg, op, result, analyses, plans>>

\* findOne answers and the call runs up to its next await or to its end
FindOneAnswers ==
    \E c \in 1..Len(calls) :
        /\ calls[c].pc = "findOne"
        /\ LET tradingPlan == FindOnePlan(plans, calls[c].userId)
           IN  calls' = [calls EXCEPT ![c] =
                   CASE calls[c].fn = "getTradingPlanByUserId" ->
                            [@ EXCEPT !.pc = "done", !.tradingPlan = tradingPlan,
                                      !.outcome = tradingPlan]
                     [] calls[c].fn = "deleteTradingPlanByUserId" /\ IsNull(tradingPlan) ->
                            [@ EXCEPT !.pc = "done", !.outcome = NotFound]
                     [] calls[c].fn = "deleteTradingPlanByUserId" /\ ~IsNull(tradingPlan) ->
                            [@ EXCEPT !.pc = "remove", !.tradingPlan = tradingPlan]
                     [] OTHER ->
                            [@ EXCEPT !.pc = "save", !.tradingPlan = tradingPlan]]
        /\ UNCHANGED <<db, trades, arg, op, result, analyses, plans>>

\* createOrUpdateTradingPlan, lines 19-31: save() of the found document or of
\* a new one.  The new document's _id is the number of the call that makes it.
\* Saving a document that another call has removed meanwhile changes nothing
\* in the collection and either resolves or rejects
SavePlan ==
    \E c \in 1..Len(calls) :
        /\ calls[c].pc = "save"
        /\ IF IsNull(calls[c].tradingPlan) THEN
               LET newTradingPlan == [_id |-> c, userId |-> calls[c].userId, body |-> calls[c].body]
               IN  /\ plans' = Append(plans, newTradingPlan)
                   /\ calls' = [calls EXCEPT ![c] = [@ EXCEPT !.pc = "done", !.outcome = newTradingPlan]]
           ELSE IF HasPlan(plans, calls[c].tradingPlan._id) THEN
               /\ plans' = UpdatePlan(plans, calls[c].tradingPlan._id, calls[c].body)
               /\ calls' = [calls EXCEPT ![c] =
                      [@ EXCEPT !.pc = "done",
                                !.outcome = [calls[c].tradingPlan EXCEPT !.body = calls[c].body]]]
           ELSE
               /\ plans' = plans
               /\ \E outcome \in {[calls[c].tradingPlan EXCEPT !.body = calls[c].body],
                                  DocumentNotFoundError} :
                      calls' = [calls EXCEPT ![c] = [@ EXCEPT !.pc = "done", !.outcome = outcome]]
        /\ UNCHANGED <<db, trades, arg, op, result, analyses>>

\* deleteTradingPlanByUserId, line 59: tradingPlan.remove()
RemoveFoundPlan ==
    \E c \in 1..Len(calls) :
        /\ calls[c].pc = "remove"
        /\ plans' = RemovePlan(plans, calls[c].tradingPlan._id)
        /\ calls' = [calls EXCEPT ![c] = [@ EXCEPT !.pc = "done", !.outcome = [removed |-> TRUE]]]
        /\ UNCHANGED <<db, trades, arg, op, result, analyses>>

NextPlans ==
    \/ BeginCall
    \/ FindOneAnswers
    \/ SavePlan
    \/ RemoveFoundPlan

SpecPlans == InitPlans /\ [][NextPlans]_vars

\* C19: after any interleaving of concurrent createOrUpdateTradingPlan,
\* getTradingPlanByUserId and deleteTradingPlanByUserId calls, at most one
\* trading plan document exists per user.
C19_OnePlanPerUser ==
    \A userId \in Users :
        Cardinality({i \in 1..Len(plans) : plans[i].userId = userId}) <= 1

-----------------------------------------------------------------------------
(* The order in which getDashboardSummary hands over the period trades,     *)
(* checked under SpecDashboard                                              *)

SummaryCalled == op = "getDashboardSummary"

\* the first floor(n/2) elements of the array and the remaining ceil(n/2)
NewerPart == SubSeq(trades, 1, Len(trades) \div 2)
OlderPart == SubSeq(trades, Len(trades) \div 2 + 1, Len(trades))

HasAlert(message) == \E i \in 1..Len(result.alerts) : result.alerts[i].message = message

\* the array is newest first, and its last five elements are the five oldest
\* trades of the period
NewestFirstWithOldestLast ==
    /\ \A i \in 1..(Len(trades) - 1) : trades[i].entryTime >= trades[i + 1].entryTime
    /\ \A i \in (Len(trades) - 4)..Len(trades), j \in 1..(Len(trades) - 5) :
          i >= 1 => trades[i].entryTime <= trades[j].entryTime

\* the recent-performance alert compares the win rate of the last five
\* elements (r winners of m) with the overall one (w of n): r/m < w/n - 0.2
RecentAlertOfOldest ==
    LET n == Len(trades)
        m == Min(5, n)
        w == CountWinning(trades)
        r == CountWinning(SubSeq(trades, n - m + 1, n))
    IN  n > 0 =>
          /\ HasAlert("Recent performance declining") <=> 5 * r * n < 5 * w * m - m * n
          /\ HasAlert("Recent performance showing improvement") <=> 5 * r * n > 5 * w * m + m * n

-----------------------------------------------------------------------------
(* The replay of analyzeStateHistory on longer arrays: SpecReplay *)

InitReplay ==
    /\ db = <<>>
    /\ trades \in CoreInputs \cup Blocks
    /\ arg = NoArg
    /\ op = "init"
    /\ result = NoResult
    /\ analyses = <<>>
    /\ plans = <<>>
    /\ calls = <<>>

NextReplay == CallAnalyzeStateHistory

SpecReplay == InitReplay /\ [][NextReplay]_vars

\* after the call `trades` is the sorted array the replay read
ReplayReturned == op = "analyzeStateHistory" /\ Len(trades) > 0 /\ ~Threw(result)

\* the classifier's result on the window of sorted positions max(1, i - 4)..i
WindowState(i) == analyzePsychologicalState(SubSeq(trades, Max(1, i - 4), i))

\* the sorted position of the trade that history entry k names
EventIndex(k) == CHOOSE i \in 1..Len(trades) : trades[i]._id = result.history[k].context.tradeId

EventsBefore(i) == {k \in 1..Len(result.history) : EventIndex(k) < i}

\* a and b differ in state, or in confidence by more than 15
Differ(a, b) == a.state # b.state \/ Abs(a.confidence - b.confidence) > 15

\* C22: while the replay runs (fewer than limit events recorded so far), the
\* trade at sorted position i produces an event iff it is the first trade, or
\* the state classified on its window differs from that of the last recorded
\* event, or its confidence differs from that event's by more than 15; the
\* event carries the window's state and confidence; and any two consecutive
\* history entries differ in state or by more than 15 in confidence.
C22_EventIffSignificant ==
    ReplayReturned =>
        /\ \A i \in 1..Len(trades) :
              Cardinality(EventsBefore(i)) < arg.limit =>
                  /\ (\E k \in 1..Len(result.history) : EventIndex(k) = i)
                        <=> \/ i = 1
                            \/ /\ EventsBefore(i) # {}
                               /\ Differ(WindowState(i),
                                         result.history[Cardinality(EventsBefore(i))])
                  /\ \A k \in 1..Len(result.history) :
                        EventIndex(k) = i =>
                            /\ result.history[k].state = WindowState(i).state
                            /\ result.history[k].confidence = WindowState(i).confidence
        /\ \A k \in 1..(Len(result.history) - 1) :
              Differ(result.history[k], result.history[k + 1])

\* an event recorded at a position beyond the fifth, for a move of the
\* confidence by more than 15 within one state
C22_Witness ==
    /\ ReplayReturned
    /\ \E k \in 2..Len(result.history) :
          /\ EventIndex(k) > 5
          /\ result.history[k].state = result.history[k - 1].state
          /\ Abs(result.history[k].confidence - result.history[k - 1].confidence) > 15

\* C23: for a non-empty trade sequence and a limit of at least 1 the history
\* is not empty, its first entry belongs to a trade of the earliest entryTime,
\* and summary.totalChanges is the number of returned entries.
C23_FirstSnapshotAndCount ==
    (op = "analyzeStateHistory" /\ Len(trades) > 0 /\ arg.limit >= 1) =>
        /\ ~Threw(result)
        /\ Len(result.history) >= 1
        /\ \A i \in 1..Len(trades) : result.history[1].timestamp <= trades[i].entryTime
        /\ \E i \in 1..Len(trades) :
              /\ trades[i]._id = result.history[1].context.tradeId
              /\ trades[i].entryTime = result.history[1].timestamp
        /\ result.summary.totalChanges = Len(result.history)

\* a replay stopped by its limit of 2 before a trade that would have been a
\* third event: that event is neither returned nor counted
C23_Witness ==
    /\ ReplayReturned
    /\ arg.limit = 2
    /\ Len(result.history) = 2
    /\ result.summary.totalChanges = 2
    /\ \E i \in 1..Len(trades) :
          /\ i > EventIndex(2)
          /\ Differ(WindowState(i), result.history[2])

-----------------------------------------------------------------------------
(* The trade service and the analysis services over one collection: SpecTrades *)

\* createBulkTrades: Trade.insertMany of the bodies, each with the caller's userId
RECURSIVE createBulkTrades(_, _, _)
createBulkTrades(docs, userId, tradesData) ==
    IF tradesData = <<>> THEN docs
    ELSE createBulkTrades(createTrade(docs, userId, Head(tradesData)), userId, Tail(tradesData))

TradeNotFound == [error |-> "ApiError: 404 Trade not found"]

\* Trade.findOne({ _id: tradeId }), whoever owns it (mutant of getTradeById)
getTradeByIdOfAnyUser(docs, tradeId, userId) ==
    IF \E i \in 1..Len(docs) : docs[i]._id = tradeId
    THEN docs[CHOOSE i \in 1..Len(docs) : docs[i]._id = tradeId]
    ELSE Null

\* getTradeById: Trade.findOne({ _id: tradeId, userId }), a document or null
getTradeById(docs, tradeId, userId) ==
    IF \E i \in 1..Len(docs) : docs[i]._id = tradeId /\ docs[i].userId = userId
    THEN docs[CHOOSE i \in 1..Len(docs) : docs[i]._id = tradeId /\ docs[i].userId = userId]
    ELSE Null

\* Object.assign(trade, updateBody): the body's fields replace the document's
ObjectAssign(trade, updateBody) == updateBody @@ trade

\* trade.save() of a found document: it replaces the stored one of its _id
SaveTrade(docs, trade) ==
    [i \in 1..Len(docs) |-> IF docs[i]._id = trade._id THEN trade ELSE docs[i]]

\* trade.remove(): the document of that _id leaves the collection
RemoveTrade(docs, trade) == SelectSeq(docs, LAMBDA d : d._id # trade._id)

\* updateTradeById: the store afterwards and what the call returns or throws
updateTradeById(docs, tradeId, userId, updateBody) ==
    LET trade == getTradeById(docs, tradeId, userId)
    IN  IF IsNull(trade) THEN [docs |-> docs, result |-> TradeNotFound]
        ELSE [docs |-> SaveTrade(docs, ObjectAssign(trade, updateBody)),
              result |-> ObjectAssign(trade, updateBody)]

\* deleteTradeById: the store afterwards and what the call returns or throws
deleteTradeById(docs, tradeId, userId) ==
    LET trade == getTradeById(docs, tradeId, userId)
    IN  IF IsNull(trade) THEN [docs |-> docs, result |-> TradeNotFound]
        ELSE [docs |-> RemoveTrade(docs, trade), result |-> [undefined |-> TRUE]]

\* the arrays a bulk request carries: one or two bodies
BulkBodies == {<<b>> : b \in TradeBodies} \cup {<<a, b>> : a, b \in TradeBodies}

\* the update body: a trade turned into a loss
UpdateBodies == {[profitLoss |-> -50, targetPercentAchieved |-> 0]}

\* the ids a caller may name: those of stored trades and one of none
TradeIds == 1..(MaxDb + 1)

CreateBulkTrades ==
    \E userId \in Users, tradesData \in BulkBodies :
        /\ Len(db) + Len(tradesData) <= MaxDb
        /\ db' = createBulkTrades(db, userId, tradesData)
        /\ op' = "createBulkTrades"
        /\ arg' = [userId |-> userId]
        /\ result' = SubSeq(db', Len(db) + 1, Len(db'))
        /\ trades' = <<>>
        /\ UNCHANGED <<analyses, plans, calls>>

UpdateTradeById ==
    \E tradeId \in TradeIds, userId \in Users, updateBody \in UpdateBodies :
        LET out == updateTradeById(db, tradeId, userId, updateBody)
        IN  /\ db' = out.docs
            /\ op' = "updateTradeById"
            /\ arg' = [tradeId |-> tradeId, userId |-> userId]
            /\ result' = out.result
            /\ trades' = <<>>
            /\ UNCHANGED <<analyses, plans, calls>>

DeleteTradeById ==
    \E tradeId \in TradeIds, userId \in Users :
        LET out == deleteTradeById(db, tradeId, userId)
        IN  /\ db' = out.docs
            /\ op' = "deleteTradeById"
            /\ arg' = [tradeId |-> tradeId, userId |-> userId]
            /\ result' = out.result
            /\ trades' = <<>>
            /\ UNCHANGED <<analyses, plans, calls>>

NextTrades ==
    \/ CreateTrade
    \/ CreateBulkTrades
    \/ UpdateTradeById
    \/ DeleteTradeById
    \/ GetCurrentState
    \/ GetSessionForecast
    \/ GetPerformanceInsights
    \/ GetStateHistory

SpecTrades == InitService /\ [][NextTrades]_vars

\* the part of a store that belongs to one user
StoreOf(docs, userId) == SelectSeq(docs, LAMBDA d : d.userId = userId)

\* stores that agree with docs on the user's trades and differ in the others:
\* the user's part alone, and docs with one more trade of another user
StoresAgreeingOn(docs, userId) ==
    {StoreOf(docs, userId)}
    \cup {createTrade(docs, other, body) : other \in Users \ {userId}, body \in TradeBodies}

\* what the analysis call recorded in op and arg returns on a store
AnalysisResult(docs) ==
    CASE op = "getCurrentState" -> getCurrentState(docs, arg.userId)
      [] op = "getSessionForecast" ->
            analyzeSessionForecast(SessionTrades(docs, arg.userId, arg.session), arg.session)
      [] op = "getPerformanceInsights" -> getPerformanceInsights(docs, arg.userId, arg.period, arg.now)
      [] op = "getStateHistory" ->
            analyzeStateHistory(HistoryTrades(docs, arg.userId, arg.filter), HistoryLimit(arg.filter))

AnalysisCalled ==
    op \in {"getCurrentState", "getSessionForecast", "getPerformanceInsights", "getStateHistory"}

\* C24: after any sequence of trade operations, the result of an analysis
\* call of a user is the one every store gives that agrees on that user's
\* trades, whatever trades of other users it holds.
C24_UserIsolation ==
    AnalysisCalled => \A other \in StoresAgreeingOn(db, arg.userId) : AnalysisResult(other) = result

\* an analysis of a user's trades while the store also holds a trade of
\* another user that the same query would match but for its userId
C24_Witness ==
    /\ op = "getSessionForecast"
    /\ Len(trades) = 1
    /\ \E i, j \in 1..Len(db) :
          /\ db[i].userId = arg.userId
          /\ db[j].userId # arg.userId
          /\ db[j].session = ToUpperCase(arg.session)
          /\ db[j].profitLoss # db[i].profitLoss

OwnedBy(docs, tradeId, userId) ==
    \E i \in 1..Len(docs) : docs[i]._id = tradeId /\ docs[i].userId = userId

\* C25: an update or a delete naming a trade that does not exist or is
\* another user's throws NOT_FOUND 'Trade not found' and leaves the store as
\* it was, and a stored trade changes or disappears only in a call that
\* carries its owner's userId.
C25_OnlyOwnerChangesTrade ==
    [][/\ (op' \in {"updateTradeById", "deleteTradeById"}
            /\ ~OwnedBy(db, arg'.tradeId, arg'.userId))
          => (result' = TradeNotFound /\ db' = db)
       /\ \A i \in 1..Len(db) :
            (\A j \in 1..Len(db') : db'[j] # db[i])
            => /\ op' \in {"updateTradeById", "deleteTradeById"}
               /\ arg'.tradeId = db[i]._id
               /\ arg'.userId = db[i].userId]_vars

\* an update refused because the trade it names is stored for another user
C25_Witness ==
    /\ op = "updateTradeById"
    /\ result = TradeNotFound
    /\ \E i \in 1..Len(db) : db[i]._id = arg.tradeId /\ db[i].userId # arg.userId

-----------------------------------------------------------------------------
(* The trends of calculateTrends *)

\* the two halves of the array in the order given, split at floor(n/2)
FirstHalfOf(ts) == {i \in 1..Len(ts) : i <= Len(ts) \div 2}
SecondHalfOf(ts) == {i \in 1..Len(ts) : i > Len(ts) \div 2}

\* the total of the values at some positions
RECURSIVE TotalAt(_, _)
TotalAt(values, positions) ==
    IF positions = {} THEN 0
    ELSE LET i == CHOOSE k \in positions : TRUE
         IN  values[i] + TotalAt(values, positions \ {i})

TotalOver(ts, positions, Value(_)) == TotalAt([i \in 1..Len(ts) |-> Value(ts[i])], positions)

ProfitLossOf(t) == t.profitLoss
WinOf(t) == IF t.profitLoss > 0 THEN 1 ELSE 0
RiskOf(t) == t.riskPercentUsed

\* UP, DOWN or STABLE as the second of two values is greater, smaller or equal
Direction(first, second) ==
    CASE second > first -> "UP"
      [] second < first -> "DOWN"
      [] OTHER -> "STABLE"

\* C26: with fewer than 2 trades the three trends are STABLE; otherwise both
\* halves of the split at floor(n/2) hold a trade, pnlTrend compares the
\* halves' total P&L and winRateTrend and riskTrend compare the halves' means
\* (means compared by cross-multiplication with the halves' sizes).
C26_TrendsCompareHalves ==
    op = "calculateTrends" =>
        LET a == FirstHalfOf(trades)
            b == SecondHalfOf(trades)
        IN  IF Len(trades) < 2
            THEN result = [pnlTrend |-> "STABLE", winRateTrend |-> "STABLE", riskTrend |-> "STABLE"]
            ELSE /\ a # {} /\ b # {}
                 /\ result.pnlTrend =
                        Direction(TotalOver(trades, a, ProfitLossOf), TotalOver(trades, b, ProfitLossOf))
                 /\ result.winRateTrend =
                        Direction(TotalOver(trades, a, WinOf) * Cardinality(b),
                                  TotalOver(trades, b, WinOf) * Cardinality(a))
                 /\ result.riskTrend =
                        Direction(TotalOver(trades, a, RiskOf) * Cardinality(b),
                                  TotalOver(trades, b, RiskOf) * Cardinality(a))

\* three trades, one against two: the later two earn more in total at the
\* same win rate and at a lower mean risk
C26_Witness ==
    /\ op = "calculateTrends"
    /\ Len(trades) = 3
    /\ result = [pnlTrend |-> "UP", winRateTrend |-> "STABLE", riskTrend |-> "DOWN"]
    /\ trades[2].profitLoss = trades[1].profitLoss

-----------------------------------------------------------------------------
(* analyzePerformanceInsights on trades of several sessions: SpecInsights *)

MaxInsightTrades == 4

\* three kinds of trade in each of the three sessions: a winner at a risk of
\* 2.0 and a risk-reward of 2.0; a loser at a risk of 5.0 and a risk-reward of
\* 0.5 that hit its stop loss; a winner at 2.5 and 1.2 that exited early
InsightTrades ==
    {Trade(0, 1, 1, 100, 20, 20, sess, FALSE, FALSE, 100) : sess \in {"LONDON", "NY", "ASIA"}}
    \cup {Trade(0, 1, 1, -50, 50, 5, sess, TRUE, FALSE, 0) : sess \in {"LONDON", "NY", "ASIA"}}
    \cup {Trade(0, 1, 1, 100, 25, 12, sess, FALSE, TRUE, 60) : sess \in {"LONDON", "NY", "ASIA"}}

InsightInputs == {WithIds(s) : s \in SeqsUpTo(InsightTrades, MaxInsightTrades)}

InitInsights ==
    /\ db = <<>>
    /\ trades \in InsightInputs
    /\ arg = NoArg
    /\ op = "init"
    /\ result = NoResult
    /\ analyses = <<>>
    /\ plans = <<>>
    /\ calls = <<>>

NextInsights == CallAnalyzePerformanceInsights

SpecInsights == InitInsights /\ [][NextInsights]_vars

InsightsReturned == op = "analyzePerformanceInsights" /\ Len(trades) > 0

\* the OPPORTUNITY insights of the result, by position
OpportunityInsights == {i \in 1..Len(result.insights) : result.insights[i].type = "OPPORTUNITY"}

TradesOfSession(sess) == {i \in 1..Len(trades) : trades[i].session = sess}

\* C27: for non-empty trades the insight "Strong performance in S session" is
\* emitted iff session S holds strictly more than half of the trades; no
\* other OPPORTUNITY insight is emitted, so there is at most one, and P&L and
\* the order of the sessions play no part.
C27_SessionInsightIffMajority ==
    InsightsReturned =>
        /\ \A sess \in {"LONDON", "NY", "ASIA"} :
              (2 * Cardinality(TradesOfSession(sess)) > Len(trades))
              <=> (\E i \in OpportunityInsights :
                      result.insights[i] =
                          [type |-> "OPPORTUNITY",
                           description |-> <<"Strong performance in ", sess, " session">>,
                           confidence |-> 70, impact |-> "MEDIUM"])
        /\ Cardinality(OpportunityInsights) <= 1
        /\ \A i \in OpportunityInsights :
              \E sess \in {"LONDON", "NY", "ASIA"} :
                  result.insights[i].description = <<"Strong performance in ", sess, " session">>

\* two losing NY trades after one winning LONDON trade: the insight names NY
C27_Witness ==
    /\ InsightsReturned
    /\ Len(trades) = 3
    /\ trades[1].session = "LONDON" /\ trades[1].profitLoss > 0
    /\ \A i \in 2..3 : trades[i].session = "NY" /\ trades[i].profitLoss < 0
    /\ \E i \in OpportunityInsights :
          result.insights[i].description = <<"Strong performance in ", "NY", " session">>

\* the recommendation a WEAKNESS insight or a pattern brings
RecommendationOf(text) ==
    CASE text = "Low win rate suggests need for better entry strategies" ->
            "Review entry criteria and market analysis"
      [] text = "High risk per trade may lead to account blowouts" ->
            "Reduce risk per trade to protect capital"
      [] text = "Poor risk-reward ratios limit profit potential" ->
            "Focus on trades with better risk-reward ratios"
      [] text = "Early exit on profitable trades" -> "Practice holding winners longer"
      [] text = "Frequent stop loss hits" -> "Improve entry timing and market analysis"

\* one recommendation per WEAKNESS insight, then one per pattern, in order
RecommendationsOwed ==
    LET weak == SelectSeq(result.insights, LAMBDA x : x.type = "WEAKNESS")
    IN  [i \in 1..Len(weak) |-> RecommendationOf(weak[i].description)]
        \o [i \in 1..Len(result.patterns) |-> RecommendationOf(result.patterns[i].pattern)]

DefaultRecommendations ==
    <<"Continue current trading approach", "Monitor performance metrics regularly">>

\* C29: for non-empty trades the recommendations are never empty: with a
\* WEAKNESS insight or a pattern they are one per WEAKNESS insight and per
\* pattern in rule order and hold neither default; otherwise they are exactly
\* the two defaults.
C29_RecommendationsNeverEmpty ==
    InsightsReturned =>
        /\ Len(result.recommendations) > 0
        /\ IF RecommendationsOwed # <<>>
           THEN /\ result.recommendations = RecommendationsOwed
                /\ \A i \in 1..Len(result.recommendations) :
                      \A k \in 1..2 : result.recommendations[i] # DefaultRecommendations[k]
           ELSE result.recommendations = DefaultRecommendations

\* two WEAKNESS insights and a pattern: three recommendations in rule order
C29_Witness ==
    /\ InsightsReturned
    /\ Len(result.patterns) >= 1
    /\ Cardinality({i \in 1..Len(result.insights) : result.insights[i].type = "WEAKNESS"}) >= 2
    /\ Len(result.recommendations) >= 3

-----------------------------------------------------------------------------
(* The discipline rules of analyzePsychologicalState *)

StateReturned == op = "analyzePsychologicalState" /\ Len(trades) > 0

\* more than 30% of the trades exited early; more than 40% hit their stop loss
ManyEarlyExits == 10 * Cardinality({i \in 1..Len(trades) : trades[i].exitedEarly}) > 3 * Len(trades)
ManyStopLossHits == 10 * Cardinality({i \in 1..Len(trades) : trades[i].stopLossHit}) > 4 * Len(trades)

\* the state the win-rate and risk rules leave (riskPercentUsed is in tenths)
StateBeforeDiscipline ==
    LET n == Len(trades)
        wins == Cardinality({i \in 1..n : trades[i].profitLoss > 0})
        risk == TotalOver(trades, 1..n, RiskOf)
    IN  CASE risk > 30 * n -> "GREEDY"
          [] risk < 10 * n -> "FEARFUL"
          [] 100 * wins >= 70 * n -> "CONFIDENT"
          [] 100 * wins <= 30 * n -> "FRUSTRATED"
          [] OTHER -> "NEUTRAL"

\* C28: the discipline rules leave the state as the win-rate and risk rules
\* set it, and emotionalBalance is 30 when more than 30% of the trades exited
\* early (with or without the stop-loss rule), 35 when only the stop-loss
\* rule fires, and 50 when neither does.
C28_EmotionalBalanceOfDiscipline ==
    StateReturned =>
        /\ result.state = StateBeforeDiscipline
        /\ result.emotionalBalance \in {50, 35, 30}
        /\ result.emotionalBalance =
              (IF ManyEarlyExits THEN 30 ELSE IF ManyStopLossHits THEN 35 ELSE 50)

\* both rules fire on a winning streak: the balance stays at the floor of 30
\* and the state is still CONFIDENT
C28_Witness ==
    /\ StateReturned
    /\ ManyEarlyExits
    /\ ManyStopLossHits
    /\ result.emotionalBalance = 30
    /\ result.state = "CONFIDENT"

-----------------------------------------------------------------------------
(* The alerts of generateAlerts *)

\* the rule group an alert comes from: 1 win rate, 2 average risk, 3 recent
\* against overall win rate, 4 psychological state
AlertGroup(alert) ==
    CASE alert.message \in {"Excellent win rate achieved",
                            "Low win rate - review trading strategy"} -> 1
      [] alert.message \in {"Risk per trade above recommended level",
                            "Consider increasing position sizes gradually"} -> 2
      [] alert.message \in {"Recent performance showing improvement",
                            "Recent performance declining"} -> 3
      [] alert.message \in {"High risk tolerance detected - reduce position sizes",
                            "Low confidence detected - consider taking a break"} -> 4

\* C30: for an empty trade set generateAlerts returns no alert, whatever the
\* psychological state; for a non-empty one the alerts come from strictly
\* increasing rule groups (at most one per group, at most 4, in the fixed
\* order), and with 5 trades or fewer none is a recent-performance alert.
C30_AlertsPerGroupInOrder ==
    op = "generateAlerts" =>
        /\ Len(trades) = 0 => result = <<>>
        /\ Len(result) <= 4
        /\ \A i, j \in 1..Len(result) : i < j => AlertGroup(result[i]) < AlertGroup(result[j])
        /\ Len(trades) <= 5 => \A i \in 1..Len(result) : AlertGroup(result[i]) # 3

\* more than five trades with an alert of every group, the third one being
\* the recent-performance alert
C30_Witness ==
    /\ op = "generateAlerts"
    /\ Len(trades) > 5
    /\ Len(result) = 4
    /\ result[3].message = "Recent performance declining"
    /\ arg.psychologicalState.state = "GREEDY"

=============================================================================
